---- MODULE Spec2Model ----
(***************************************************************************)
(* A model of the midi-arpeggiator engine: the synced, timed and           *)
(* full-length Players (src/src/arpeggio/*.rs), the settings routers       *)
(* (src/src/settings.rs), and the dispatcher with its mode state machines  *)
(* (src/src/arpeggiator.rs, src/src/arpeggiator/*.rs).                     *)
(*                                                                         *)
(* Indices are 0-based as in the Rust source; a TLA+ sequence s holds the  *)
(* Rust element s[i] at position i + 1.                                    *)
(***************************************************************************)
EXTENDS Integers, Sequences, FiniteSets, TLC

VARIABLES
    kind,            \* which Player the Player specification drives
    player,          \* arpeggio::synced::Player
    fl,              \* arpeggio::full_length::Player
    worker,          \* arpeggio::timed::Player: its worker thread and stop flag
    finish_pattern,  \* Settings::finish_pattern the arpeggios are built with
    alive,           \* the owner still holds the Player (it has not returned false)
    out,             \* messages sent to the output queue by the last operation
    sounding,        \* note-ons minus note-offs sent so far, per (channel, pitch)
    ret,             \* what the last operation returned
    lastOp,          \* the last operation
    router,          \* the SettingsGetter: SpecificProgramChanges or WraparoundProgramChanges
    received,        \* the last message read from the input
    routed,          \* what the router's passthrough_midi returned for it
    bank,            \* the channel-1 bank select and program change messages seen so far
    existing_settings,  \* the dispatcher's existing_settings
    arpeggiator,     \* the dispatcher's mode
    keys,            \* the keys of the keyboard that are down
    obs,             \* what the last iteration of the dispatcher did
    args,            \* the arguments a function is called with
    result,          \* what the function returned for them
    threads,         \* the worker threads of timed Players their mode has dropped
    history,         \* the readings of Instant::now() so far, and the pitches pressed since the last start
    midi_in          \* midi::InputDevice: its reader threads, the merged queue and the caller of read

pvars == <<kind, player, fl, worker, finish_pattern, alive>>
rvars == <<router, received, routed, bank>>
dvars == <<existing_settings, arpeggiator, keys, obs>>
fvars == <<args, result>>
tvars == <<threads, history>>
qvars == <<midi_in>>
vars == <<kind, player, fl, worker, finish_pattern, alive, out, sounding, ret, lastOp,
          router, received, routed, bank, existing_settings, arpeggiator, keys, obs,
          args, result, threads, history, midi_in>>

----------------------------------------------------------------------------
(* Program constants *)

TICKS_PER_BEAT == 24
NOTE_MAX == 127

(* Bounds of the model *)

MaxSteps == 3      \* longest arpeggio the Player specification builds

----------------------------------------------------------------------------
(* MIDI messages and the output ghost *)

NoteOn(c, n, v) == [type |-> "NoteOn", c |-> c, a |-> n, b |-> v]
NoteOff(c, n, v) == [type |-> "NoteOff", c |-> c, a |-> n, b |-> v]
ControlChange(c, f, v) == [type |-> "ControlChange", c |-> c, a |-> f, b |-> v]
ProgramChange(c, p) == [type |-> "ProgramChange", c |-> c, a |-> p, b |-> 0]
TimingClock == [type |-> "TimingClock", c |-> 0, a |-> 0, b |-> 0]
Reset == [type |-> "Reset", c |-> 0, a |-> 0, b |-> 0]

NoteDetails(c, n, v) == [c |-> c, n |-> n, v |-> v]

NoSound == [k \in {} |-> 0]

Bump(snd, k, d) ==
    LET cur == IF k \in DOMAIN snd THEN snd[k] ELSE 0
        new == cur + d
    IN  IF new = 0
        THEN [x \in DOMAIN snd \ {k} |-> snd[x]]
        ELSE [x \in DOMAIN snd \cup {k} |-> IF x = k THEN new ELSE snd[x]]

RECURSIVE Sound(_, _)
Sound(snd, msgs) ==
    IF msgs = <<>> THEN snd
    ELSE LET m == Head(msgs)
             s == IF m.type = "NoteOn" THEN Bump(snd, <<m.c, m.a>>, 1)
                  ELSE IF m.type = "NoteOff" THEN Bump(snd, <<m.c, m.a>>, -1)
                  ELSE snd
         IN  Sound(s, Tail(msgs))

RECURSIVE SoundOfNotes(_)
SoundOfNotes(notes) ==
    IF notes = <<>> THEN NoSound
    ELSE Bump(SoundOfNotes(Tail(notes)), <<Head(notes).c, Head(notes).n>>, 1)

----------------------------------------------------------------------------
(* arpeggio.rs: Step *)

send_on(notes) == [k \in 1..Len(notes) |-> NoteOn(notes[k].c, notes[k].n, notes[k].v)]

send_off(notes) == [k \in 1..Len(notes) |-> NoteOff(notes[k].c, notes[k].n, notes[k].v)]

----------------------------------------------------------------------------
(* arpeggio/synced.rs: Arpeggio *)

from_steps(steps, finish_steps) ==
    LET ticks_per_step == IF Len(steps) >= TICKS_PER_BEAT THEN 1
                          ELSE TICKS_PER_BEAT \div Len(steps)
    IN  [steps |-> [k \in 1..Len(steps) |-> [ticks |-> ticks_per_step, notes |-> steps[k]]],
         total_ticks |-> ticks_per_step * Len(steps),
         finish_steps |-> finish_steps]

(* Arpeggio::from(steps, total_beats, finish_steps), the constructor the modes call: *)
(* the steps share total_beats beats evenly, saturating at one tick per step.        *)
Arpeggio_from(steps, total_beats, finish_steps) ==
    LET budget == TICKS_PER_BEAT * total_beats
        ticks_per_step == IF Len(steps) >= budget THEN 1 ELSE budget \div Len(steps)
    IN  [steps |-> [k \in 1..Len(steps) |-> [ticks |-> ticks_per_step, notes |-> steps[k]]],
         total_ticks |-> ticks_per_step * Len(steps),
         finish_steps |-> finish_steps]

----------------------------------------------------------------------------
(* arpeggio/synced.rs: Player *)

NoLast == [tag |-> "None", index |-> 0, notes |-> <<>>]
SomeIndex(i) == [tag |-> "SomeIndex", index |-> i, notes |-> <<>>]
SomeStep(notes) == [tag |-> "Some", index |-> 0, notes |-> notes]

Player_init(arpeggio) ==
    [arpeggio |-> arpeggio, step |-> 0, wait_ticks |-> 0,
     should_stop |-> FALSE, last_step |-> NoLast]

(* the notes last_step stands for: what last_step_off sends off *)
LastNotes(p) ==
    IF p.last_step.tag = "SomeIndex" THEN p.arpeggio.steps[p.last_step.index + 1].notes
    ELSE IF p.last_step.tag = "Some" THEN p.last_step.notes
    ELSE <<>>

last_step_off(p) == send_off(LastNotes(p))

NextStep(arpeggio, step) == IF step = Len(arpeggio.steps) - 1 THEN 0 ELSE step + 1

play_tick_on_first(p) ==
    IF Len(p.arpeggio.steps) = 0 THEN [p |-> p, out |-> <<>>, ret |-> FALSE]
    ELSE IF p.should_stop /\ ~p.arpeggio.finish_steps
    THEN [p |-> p, out |-> last_step_off(p), ret |-> FALSE]
    ELSE IF p.wait_ticks = 0
    THEN IF p.should_stop /\ p.step = 0
         THEN [p |-> p, out |-> last_step_off(p), ret |-> FALSE]
         ELSE LET st == p.arpeggio.steps[p.step + 1]
              IN  [p |-> [p EXCEPT !.last_step = SomeIndex(p.step),
                                   !.step = NextStep(p.arpeggio, p.step),
                                   !.wait_ticks = st.ticks - 1],
                   out |-> send_on(st.notes) \o last_step_off(p),
                   ret |-> TRUE]
    ELSE [p |-> [p EXCEPT !.wait_ticks = @ - 1], out |-> <<>>, ret |-> TRUE]

play_tick_no_stop_check(p) ==
    IF Len(p.arpeggio.steps) = 0 THEN [p |-> p, out |-> <<>>, ret |-> FALSE]
    ELSE IF p.wait_ticks = 0
    THEN IF p.should_stop /\ p.step = 0
         THEN [p |-> p, out |-> last_step_off(p), ret |-> FALSE]
         ELSE LET st == p.arpeggio.steps[p.step + 1]
              IN  [p |-> [p EXCEPT !.last_step = SomeIndex(p.step),
                                   !.step = NextStep(p.arpeggio, p.step),
                                   !.wait_ticks = st.ticks - 1],
                   out |-> last_step_off(p) \o send_on(st.notes),
                   ret |-> TRUE]
    ELSE [p |-> [p EXCEPT !.wait_ticks = @ - 1], out |-> <<>>, ret |-> TRUE]

play_tick_restart_cycle(p) ==
    IF Len(p.arpeggio.steps) = 0 THEN [p |-> p, out |-> <<>>, ret |-> FALSE]
    ELSE IF p.should_stop /\ ~p.arpeggio.finish_steps
    THEN [p |-> p, out |-> last_step_off(p), ret |-> FALSE]
    ELSE IF p.wait_ticks = 0
    THEN LET st == p.arpeggio.steps[p.step + 1]
         IN  [p |-> [p EXCEPT !.last_step = SomeIndex(p.step),
                              !.step = NextStep(p.arpeggio, p.step),
                              !.wait_ticks = st.ticks - 1],
              out |-> last_step_off(p) \o send_on(st.notes),
              ret |-> ~(p.should_stop /\ p.step = 0)]
    ELSE [p |-> [p EXCEPT !.wait_ticks = @ - 1], out |-> <<>>, ret |-> TRUE]

(* One call of play_tick: the Player after it, what it sent, what it returned.  *)
(* Every arpeggio the constructors build has at least one tick per step, so the *)
(* final decrement of wait_ticks never goes below zero.                         *)
play_tick(p) ==
    IF Len(p.arpeggio.steps) = 0 THEN [p |-> p, out |-> <<>>, ret |-> FALSE]
    ELSE IF p.should_stop /\ ~p.arpeggio.finish_steps
    THEN [p |-> p, out |-> last_step_off(p), ret |-> FALSE]
    ELSE IF p.wait_ticks = 0
    THEN IF p.should_stop /\ p.step = 0
         THEN [p |-> p, out |-> last_step_off(p), ret |-> FALSE]
         ELSE LET st == p.arpeggio.steps[p.step + 1]
              IN  [p |-> [p EXCEPT !.last_step = SomeIndex(p.step),
                                   !.step = NextStep(p.arpeggio, p.step),
                                   !.wait_ticks = st.ticks - 1],
                   out |-> last_step_off(p) \o send_on(st.notes),
                   ret |-> TRUE]
    ELSE [p |-> [p EXCEPT !.wait_ticks = @ - 1], out |-> <<>>, ret |-> TRUE]

RECURSIVE TicksBefore(_, _)
TicksBefore(arpeggio, step) ==
    IF step = 0 THEN 0
    ELSE TicksBefore(arpeggio, step - 1) + arpeggio.steps[step].ticks

(* 2^64 modulo m, for a usize subtraction that wraps *)
Pow64Mod(m) ==
    LET a == 65536 % m
        b == (a * a) % m
    IN  (b * b) % m

RECURSIVE Locate(_, _, _)
Locate(arpeggio, step, ticks_since_start) ==
    IF ticks_since_start > arpeggio.steps[step + 1].ticks
    THEN Locate(arpeggio, NextStep(arpeggio, step),
                ticks_since_start - arpeggio.steps[step + 1].ticks)
    ELSE [step |-> step, rest |-> ticks_since_start]

TicksSinceStart_from_zero(p) == TicksBefore(p.arpeggio, p.step)

(* ticks_since_start before wait_ticks is subtracted *)
TicksSinceStart(p) ==
    IF p.step = 0 THEN p.arpeggio.total_ticks ELSE TicksBefore(p.arpeggio, p.step)

(* whether ticks_since_start -= wait_ticks goes below zero *)
ChangeUnderflows(p) == TicksSinceStart(p) < p.wait_ticks

change_arpeggio_forget_last(p, arpeggio) ==
    LET since == TicksSinceStart(p) - p.wait_ticks
        pos == Locate(arpeggio, 0, since)
    IN  [p EXCEPT !.arpeggio = arpeggio,
                  !.last_step = NoLast,
                  !.step = pos.step,
                  !.wait_ticks = arpeggio.steps[pos.step + 1].ticks - pos.rest]

change_arpeggio_ignore_wait(p, arpeggio) ==
    LET last == IF p.last_step.tag = "SomeIndex"
                THEN SomeStep(p.arpeggio.steps[p.last_step.index + 1].notes)
                ELSE p.last_step
        pos == Locate(arpeggio, 0, TicksSinceStart(p))
    IN  [p EXCEPT !.arpeggio = arpeggio,
                  !.last_step = last,
                  !.step = pos.step,
                  !.wait_ticks = arpeggio.steps[pos.step + 1].ticks - pos.rest]

(* change_arpeggio where the subtraction does not underflow; where it does, a   *)
(* debug build panics and a release build wraps modulo 2^64 and walks the new   *)
(* arpeggio that many ticks, which is the same position as walking the wrapped  *)
(* value reduced by whole cycles.                                               *)
change_arpeggio(p, arpeggio) ==
    LET last == IF p.last_step.tag = "SomeIndex"
                THEN SomeStep(p.arpeggio.steps[p.last_step.index + 1].notes)
                ELSE p.last_step
        diff == TicksSinceStart(p) - p.wait_ticks
        total == arpeggio.total_ticks
        since == IF diff >= 0 THEN diff
                 ELSE (((Pow64Mod(total) + (diff % total)) + total - 1) % total) + 1
        pos == Locate(arpeggio, 0, since)
    IN  [p EXCEPT !.arpeggio = arpeggio,
                  !.last_step = last,
                  !.step = pos.step,
                  !.wait_ticks = arpeggio.steps[pos.step + 1].ticks - pos.rest]

stop(p) == [p EXCEPT !.should_stop = TRUE]

(* the end of force_stop: the error when play_tick returned true *)
force_stopped(r) ==
    [p |-> r.p, out |-> r.out,
     ret |-> IF r.ret THEN "Failed to force stop arpeggio" ELSE "Ok"]

force_stop_keep_step(p) ==
    force_stopped(play_tick([p EXCEPT !.wait_ticks = 0, !.should_stop = TRUE]))

(* force_stop: the Player after it, what it sent, and Ok or the error *)
force_stop(p) ==
    force_stopped(play_tick([p EXCEPT !.step = 0, !.wait_ticks = 0, !.should_stop = TRUE]))

----------------------------------------------------------------------------
(* arpeggio/timed.rs: Arpeggio::play on the worker thread, Player::stop        *)
(* A timed arpeggio is its steps' notes and finish_steps; the waits are sleeps *)
(* of any length. pc is the worker's position: "check" at the loop condition,  *)
(* "sleep" inside thread::sleep with steps[cur] sounding, "exited" after it.   *)

Worker_start(steps, finish_steps) ==
    [steps |-> steps, finish_steps |-> finish_steps, i |-> 0, cur |-> 0,
     pc |-> "check", should_stop |-> FALSE]

play_check_ignore_finish(w) ==
    IF ~w.should_stop
    THEN [w |-> [w EXCEPT !.cur = w.i,
                          !.i = IF w.i = Len(w.steps) - 1 THEN 0 ELSE w.i + 1,
                          !.pc = "sleep"],
          out |-> send_on(w.steps[w.i + 1])]
    ELSE [w |-> [w EXCEPT !.pc = "exited"], out |-> <<>>]

(* the loop condition, and when it holds send_on and the index's advance *)
play_check(w) ==
    IF ~w.should_stop \/ (w.finish_steps /\ w.i # 0)
    THEN [w |-> [w EXCEPT !.cur = w.i,
                          !.i = IF w.i = Len(w.steps) - 1 THEN 0 ELSE w.i + 1,
                          !.pc = "sleep"],
          out |-> send_on(w.steps[w.i + 1])]
    ELSE [w |-> [w EXCEPT !.pc = "exited"], out |-> <<>>]

(* the sleep ends: send_off of the step sent on before it *)
play_wake(w) == [w |-> [w EXCEPT !.pc = "check"], out |-> send_off(w.steps[w.cur + 1])]

----------------------------------------------------------------------------
(* arpeggio/full_length.rs: Arpeggio and Player                                *)
(* notes is the array [Option<Velocity>; NOTE_MAX] kept as the function from   *)
(* the indices that hold Some(v) to v.                                         *)

FL_CHANNEL == 1

Fl_from(n, v, notes_per_beat, pattern) ==
    [notes |-> [x \in {n} |-> v], ticks_per_step |-> TICKS_PER_BEAT \div notes_per_beat,
     pattern |-> pattern]

(* whether notes[n] is inside the array: an index of NOTE_MAX or more panics *)
Fl_in_bounds(n) == n < NOTE_MAX

Fl_note_on(notes, n, v) == [x \in DOMAIN notes \cup {n} |-> IF x = n THEN v ELSE notes[x]]

Fl_note_off_ignored(notes, n) == notes

Fl_note_off(notes, n) == [x \in DOMAIN notes \ {n} |-> notes[x]]

Fl_init(arpeggio) ==
    [arpeggio |-> arpeggio, last_note |-> NOTE_MAX - 1, wait_ticks |-> 0,
     should_stop |-> FALSE]

last_note_off(p) == <<NoteOff(FL_CHANNEL, p.last_note, 0)>>

(* how many times the sweep of play_tick advances next_note from last_note to *)
(* reach pitch n: 1 for the pitch after last_note in pattern order, NOTE_MAX   *)
(* for last_note itself                                                        *)
Fl_distance(pattern, last_note, n) ==
    IF pattern = "Up" THEN ((n - last_note - 1) % NOTE_MAX) + 1
    ELSE ((last_note - n - 1) % NOTE_MAX) + 1

Fl_sweep_lowest(p, next_note) ==
    LET held == DOMAIN p.arpeggio.notes
    IN  IF held = {} THEN -1
        ELSE CHOOSE n \in held : \A m \in held :
                 IF p.arpeggio.pattern = "Up" THEN n <= m ELSE n >= m

(* the sweep of play_tick: the loop advances next_note one pitch at a time and *)
(* stops at the first held pitch, so it finds the held pitch the fewest        *)
(* advances away; it gives up (-1) when it is back at last_note and no pitch   *)
(* is held                                                                     *)
Fl_sweep(p, next_note) ==
    LET held == DOMAIN p.arpeggio.notes
    IN  IF held = {} THEN -1
        ELSE CHOOSE n \in held : \A m \in held :
                 Fl_distance(p.arpeggio.pattern, next_note, n)
                     <= Fl_distance(p.arpeggio.pattern, next_note, m)

Fl_play_tick(p) ==
    IF p.should_stop THEN [p |-> p, out |-> last_note_off(p), ret |-> FALSE]
    ELSE IF p.wait_ticks = 0
    THEN LET n == Fl_sweep(p, p.last_note)
         IN  IF n = -1 THEN [p |-> p, out |-> last_note_off(p), ret |-> FALSE]
             ELSE [p |-> [p EXCEPT !.last_note = n,
                                   !.wait_ticks = p.arpeggio.ticks_per_step - 1],
                   out |-> last_note_off(p)
                           \o <<NoteOn(FL_CHANNEL, n, p.arpeggio.notes[n])>>,
                   ret |-> TRUE]
    ELSE [p |-> [p EXCEPT !.wait_ticks = @ - 1], out |-> <<>>, ret |-> TRUE]

Fl_force_stop_no_flag(p) ==
    LET r == Fl_play_tick([p EXCEPT !.wait_ticks = 0])
    IN  [p |-> r.p, out |-> r.out,
         ret |-> IF r.ret THEN "Failed to force stop arpeggio" ELSE "Ok"]

Fl_force_stop(p) ==
    LET r == Fl_play_tick([p EXCEPT !.should_stop = TRUE, !.wait_ticks = 0])
    IN  [p |-> r.p, out |-> r.out,
         ret |-> IF r.ret THEN "Failed to force stop arpeggio" ELSE "Ok"]

----------------------------------------------------------------------------
(* Players that are held by nobody, for the specifications that drive none *)

IdlePlayer == Player_init(from_steps(<<<<>>>>, FALSE))
IdleFl == Fl_init(Fl_from(0, 0, 1, "Up"))
IdleWorker == Worker_start(<<<<>>>>, FALSE)

----------------------------------------------------------------------------
(* settings.rs: Settings; an Option<u8> or Option<usize> is -1 for None *)

Settings(mode, finish, fixed_velocity, fixed_steps, fixed_notes_per_step, pattern) ==
    [mode |-> mode, finish_pattern |-> finish, fixed_velocity |-> fixed_velocity,
     fixed_steps |-> fixed_steps, fixed_notes_per_step |-> fixed_notes_per_step,
     pattern |-> pattern, double_notes |-> [some |-> FALSE, v |-> <<>>]]

passthrough == Settings("Passthrough", FALSE, -1, -1, -1, "Up")

----------------------------------------------------------------------------
(* settings.rs: the settings routers *)

RECEIVE_CHANNEL == 1
BANK_SELECT == 0
BANK_SELECT_LSB == 32
U7_MAX == 127

NoMessage == [type |-> "None", c |-> 0, a |-> 0, b |-> 0]

(* SpecificProgramChanges::new: the table is filled in list order, a later *)
(* entry replacing an earlier one with the same key                         *)
RECURSIVE Predefined(_)
Predefined(list) ==
    IF list = <<>> THEN [k \in {} |-> passthrough]
    ELSE LET front == Predefined(SubSeq(list, 1, Len(list) - 1))
             s == list[Len(list)]
             key == <<s.msb, s.lsb, s.pc>>
         IN  [k \in DOMAIN front \cup {key} |-> IF k = key THEN s.settings ELSE front[k]]

SpecificProgramChanges_new(settings_with_program_info, default_settings) ==
    [strategy |-> "specific", predefined |-> Predefined(settings_with_program_info),
     list |-> <<>>, default |-> default_settings, current |-> default_settings,
     index |-> 0, msb |-> 0, lsb |-> 0, pc |-> 0]

WraparoundProgramChanges_new(predefined) ==
    [strategy |-> "wraparound", predefined |-> [k \in {} |-> passthrough],
     list |-> predefined, default |-> passthrough, current |-> passthrough,
     index |-> 0, msb |-> 0, lsb |-> 0, pc |-> 0]

Router_get(r) == IF r.strategy = "specific" THEN r.current ELSE r.list[r.index + 1]

Specific_program_zero_based(r, pc) ==
    LET key == <<r.msb, r.lsb, pc>>
    IN  [r EXCEPT !.pc = pc,
                  !.current = IF key \in DOMAIN r.predefined THEN r.predefined[key]
                              ELSE r.default]

(* the ProgramChange arm of SpecificProgramChanges::passthrough_midi *)
Specific_program(r, pc) ==
    LET key == <<r.msb, r.lsb, pc + 1>>
    IN  [r EXCEPT !.pc = pc + 1,
                  !.current = IF key \in DOMAIN r.predefined THEN r.predefined[key]
                              ELSE r.default]

(* the value the ProgramChange arm flattens msb, lsb and pc into, before the *)
(* modulo                                                                    *)
Wraparound_flat(msb, lsb, pc) == (msb * U7_MAX + lsb) * U7_MAX + pc

(* the ProgramChange arm of WraparoundProgramChanges::passthrough_midi *)
Wraparound_program(r, pc) ==
    [r EXCEPT !.pc = pc,
              !.index = Wraparound_flat(r.msb, r.lsb, pc) % Len(r.list)]

passthrough_midi_any_channel(r, message) ==
    IF message.type = "ControlChange" /\ message.a = BANK_SELECT
    THEN [r |-> [r EXCEPT !.msb = message.b], m |-> NoMessage]
    ELSE IF message.type = "ControlChange" /\ message.a = BANK_SELECT_LSB
    THEN [r |-> [r EXCEPT !.lsb = message.b], m |-> NoMessage]
    ELSE IF message.type = "ProgramChange"
    THEN [r |-> IF r.strategy = "specific" THEN Specific_program(r, message.a)
                ELSE Wraparound_program(r, message.a),
          m |-> NoMessage]
    ELSE [r |-> r, m |-> message]

(* passthrough_midi of either router: the router after the message, and what *)
(* is returned (NoMessage for None)                                          *)
passthrough_midi(r, message) ==
    IF /\ message.type = "ControlChange" /\ message.c = RECEIVE_CHANNEL
       /\ message.a = BANK_SELECT
    THEN [r |-> [r EXCEPT !.msb = message.b], m |-> NoMessage]
    ELSE IF /\ message.type = "ControlChange" /\ message.c = RECEIVE_CHANNEL
            /\ message.a = BANK_SELECT_LSB
    THEN [r |-> [r EXCEPT !.lsb = message.b], m |-> NoMessage]
    ELSE IF message.type = "ProgramChange" /\ message.c = RECEIVE_CHANNEL
    THEN [r |-> IF r.strategy = "specific" THEN Specific_program(r, message.a)
                ELSE Wraparound_program(r, message.a),
          m |-> NoMessage]
    ELSE [r |-> r, m |-> message]

----------------------------------------------------------------------------
(* arpeggiator.rs: Pattern *)

(* where sort_by, which is stable, puts d among notes already in order *)
SortedInsert(pattern, sorted, d) ==
    LET k == Cardinality({i \in 1..Len(sorted) :
                             IF pattern = "Up" THEN sorted[i].n <= d.n
                             ELSE sorted[i].n >= d.n})
    IN  SubSeq(sorted, 1, k) \o <<d>> \o SubSeq(sorted, k + 1, Len(sorted))

RECURSIVE sort_by(_, _)
sort_by(pattern, notes) ==
    IF notes = <<>> THEN <<>>
    ELSE SortedInsert(pattern, sort_by(pattern, SubSeq(notes, 1, Len(notes) - 1)),
                      notes[Len(notes)])

expand_forward(notes) ==
    LET len == Len(notes)
        lo == IF len <= 2 THEN 0 ELSE 1
        hi == IF len = 1 THEN 1 ELSE IF len = 2 THEN 2 ELSE len - 1
    IN  notes \o [k \in 1..(hi - lo) |-> notes[lo + k]]

(* Pattern::expand: the range lo..hi of indices, pushed from hi - 1 down to lo *)
expand(notes) ==
    LET len == Len(notes)
        lo == IF len <= 2 THEN 0 ELSE 1
        hi == IF len = 1 THEN 1 ELSE IF len = 2 THEN 2 ELSE len - 1
    IN  notes \o [k \in 1..(hi - lo) |-> notes[hi - k + 1]]

RECURSIVE Expanded(_, _)
Expanded(notes, steps) ==
    IF Len(notes) >= steps THEN notes ELSE Expanded(expand(notes), steps)

notes_taken_no_remainder(len, steps, k) == k * (len \div steps)

(* Pattern::of for at least one note and at least one step (it panics on none) *)
(* how many notes the first k steps take of len notes shared among steps *)
notes_taken(len, steps, k) ==
    k * (len \div steps) + (IF k < len % steps THEN k ELSE len % steps)

(* the steps of Pattern::of, given the sorted and expanded notes *)
Pattern_steps(all, steps) ==
    [k \in 1..steps |-> SubSeq(all, notes_taken(Len(all), steps, k - 1) + 1,
                                    notes_taken(Len(all), steps, k))]

Pattern_of(pattern, notes, steps) == Pattern_steps(Expanded(sort_by(pattern, notes), steps), steps)

(* the while loop of generate_steps, which counts the steps that hold the notes *)
(* notes_per_step at a time.  With notes_per_step 0 an iteration leaves          *)
(* notes_remaining as it found it, above 0: the loop does not end (-1).          *)
RECURSIVE count_steps(_, _, _)
count_steps(notes_remaining, notes_per_step, steps) ==
    IF notes_remaining = 0 THEN steps
    ELSE IF notes_remaining <= notes_per_step THEN count_steps(0, notes_per_step, steps + 1)
    ELSE IF notes_per_step = 0 THEN -1
    ELSE count_steps(notes_remaining - notes_per_step, notes_per_step, steps + 1)

(* whether generate_steps returns *)
generate_steps_returns(s, notes) ==
    \/ s.fixed_steps # -1
    \/ s.fixed_notes_per_step = -1
    \/ count_steps(Len(notes), s.fixed_notes_per_step, 0) # -1

(* Settings::generate_steps, where it returns *)
generate_steps(s, notes) ==
    IF s.fixed_steps # -1 THEN Pattern_of(s.pattern, notes, s.fixed_steps)
    ELSE IF s.fixed_notes_per_step # -1
    THEN Pattern_of(s.pattern, notes, count_steps(Len(notes), s.fixed_notes_per_step, 0))
    ELSE Pattern_of(s.pattern, notes, Len(notes))

(* NoteDetails::new(c, n, v, fixed_velocity) *)
NoteDetails_new(c, n, v, fixed_velocity) ==
    NoteDetails(c, n, IF fixed_velocity = -1 THEN v ELSE fixed_velocity)

----------------------------------------------------------------------------
(* arpeggio/synced.rs: Arpeggio::first_note and Arpeggio::transpose *)

highest_note(notes) ==
    CHOOSE n \in {notes[i].n : i \in 1..Len(notes)} : \A i \in 1..Len(notes) : notes[i].n <= n

(* first_note, looking from step k on *)
RECURSIVE first_note(_, _)
first_note(arpeggio, k) ==
    IF arpeggio.steps[k].notes # <<>> THEN highest_note(arpeggio.steps[k].notes)
    ELSE first_note(arpeggio, k + 1)

Stepped(kept, half_steps) ==
    [k \in 1..Len(kept) |-> [kept[k] EXCEPT !.n = kept[k].n + half_steps]]

Step_transpose_keep_all(notes, half_steps) == Stepped(notes, half_steps)

Step_transpose_clamped(notes, half_steps) ==
    [k \in 1..Len(notes) |->
        [notes[k] EXCEPT !.n = IF notes[k].n + half_steps > 127 THEN 127
                               ELSE IF notes[k].n + half_steps < 0 THEN 0
                               ELSE notes[k].n + half_steps]]

(* Step::transpose: Note::step fails outside 0..127 and the note is left out *)
Step_transpose(notes, half_steps) ==
    Stepped(SelectSeq(notes, LAMBDA d : d.n + half_steps \in 0..127), half_steps)

transpose(arpeggio, from, to) ==
    [arpeggio EXCEPT !.steps = [k \in 1..Len(arpeggio.steps) |->
        [arpeggio.steps[k] EXCEPT !.notes = Step_transpose(arpeggio.steps[k].notes, to - from)]]]

----------------------------------------------------------------------------
(* HashMap and HashSet: a map is the function from its keys; where the code    *)
(* iterates over one, the order taken is ascending key order                   *)

EmptyMap == [k \in {} |-> 0]
MapPut(f, k, v) == [x \in DOMAIN f \cup {k} |-> IF x = k THEN v ELSE f[x]]
MapDel(f, k) == [x \in DOMAIN f \ {k} |-> f[x]]

RECURSIVE Ascending(_)
Least(S) == CHOOSE x \in S : \A y \in S : x <= y

Ascending(S) ==
    IF S = {} THEN <<>> ELSE <<Least(S)>> \o Ascending(S \ {Least(S)})

ValuesAt(f, ks) == [i \in 1..Len(ks) |-> f[ks[i]]]

Values(f) == ValuesAt(f, Ascending(DOMAIN f))

RemoveAt(s, i) == SubSeq(s, 1, i) \o SubSeq(s, i + 2, Len(s))

----------------------------------------------------------------------------
(* What one call of a mode's process gives: the mode after it, what it sent,   *)
(* the Players play_tick was called on (in call order), the Players the mode   *)
(* held when it began calling play_tick, and Ok or the error.                  *)

Done(a, sent, ticked, held, r) ==
    [a |-> a, out |-> sent, ticked |-> ticked, held |-> held, ret |-> r]

DAMPER_PEDAL == 64

IsPedal(m) == m.type = "ControlChange" /\ m.a = DAMPER_PEDAL

(* drain_and_force_stop_vec and drain_and_force_stop_map, over the Players in  *)
(* drain order: the first error ends the loop                                  *)
RECURSIVE drain_and_force_stop(_)

drain_next(r, players) ==
    IF r.ret # "Ok" THEN [out |-> r.out, ret |-> r.ret]
    ELSE [out |-> r.out \o drain_and_force_stop(players).out,
          ret |-> drain_and_force_stop(players).ret]

drain_and_force_stop(players) ==
    IF players = <<>> THEN [out |-> <<>>, ret |-> "Ok"]
    ELSE drain_next(force_stop(Head(players)), Tail(players))

----------------------------------------------------------------------------
(* arpeggiator.rs: Passthrough *)

Passthrough_new == [mode |-> "Passthrough"]

should_passthrough(m) ==
    \/ m.type \in {"NoteOn", "NoteOff"}
    \/ m.type = "ControlChange" /\ m.a \notin {BANK_SELECT, BANK_SELECT_LSB}

Passthrough_process(a, m, s) ==
    IF should_passthrough(m)
    THEN Done(a, <<IF s.fixed_velocity # -1 /\ m.type \in {"NoteOn", "NoteOff"}
                   THEN [m EXCEPT !.b = s.fixed_velocity] ELSE m>>, <<>>, {}, "Ok")
    ELSE Done(a, <<>>, <<>>, {}, "Ok")

----------------------------------------------------------------------------
(* arpeggiator/synced.rs: PressHold. held_notes maps a pitch to its            *)
(* NoteDetails; the Instant beside it is read only by the TimingClock arm,     *)
(* whose comparison with TRIGGER_TIME_MS is the input elapsed. An entry of     *)
(* arpeggios carries an id that tells the Players apart.                       *)

PressHold_new ==
    [mode |-> "PressHold", held_notes |-> EmptyMap, pedal_notes_off |-> {},
     pedal |-> FALSE, arpeggios |-> <<>>]

PressHold_release_note_any(a, n) ==
    [a EXCEPT !.held_notes = MapDel(a.held_notes, n),
              !.arpeggios = [k \in 1..Len(a.arpeggios) |->
                  LET e == a.arpeggios[k]
                  IN  IF n \in e.note_set
                      THEN [e EXCEPT !.note_set = e.note_set \ {n}, !.player = stop(e.player)]
                      ELSE e]]

(* release_note: the pitch leaves held_notes and every note_set, and a Player *)
(* whose note_set it empties is stopped                                       *)
PressHold_release_note(a, n) ==
    [a EXCEPT !.held_notes = MapDel(a.held_notes, n),
              !.arpeggios = [k \in 1..Len(a.arpeggios) |->
                  LET e == a.arpeggios[k]
                  IN  IF n \in e.note_set
                      THEN [e EXCEPT !.note_set = e.note_set \ {n},
                                     !.player = IF e.note_set = {n} THEN stop(e.player)
                                                ELSE e.player]
                      ELSE e]]

PressHold_release_notes_first(a, notes_to_release) ==
    IF notes_to_release = <<>> THEN a
    ELSE PressHold_release_note(a, Head(notes_to_release))

RECURSIVE PressHold_release_notes(_, _)
PressHold_release_notes(a, notes_to_release) ==
    IF notes_to_release = <<>> THEN a
    ELSE PressHold_release_notes(PressHold_release_note(a, Head(notes_to_release)),
                                 Tail(notes_to_release))

FreshId(arpeggios) ==
    CHOOSE i \in 0..Len(arpeggios) :
        /\ \A k \in 1..Len(arpeggios) : arpeggios[k].id # i
        /\ \A j \in 0..(i - 1) : \E k \in 1..Len(arpeggios) : arpeggios[k].id = j

RECURSIVE tick_vec_skip_after_remove(_, _, _, _)

tick_vec_skip_body(arpeggios, i, sent, ticked, r) ==
    IF ~r.ret
    THEN tick_vec_skip_after_remove(RemoveAt(arpeggios, i), i + 1, sent \o r.out,
                                    Append(ticked, arpeggios[i + 1].id))
    ELSE tick_vec_skip_after_remove([arpeggios EXCEPT ![i + 1].player = r.p], i + 1,
                                    sent \o r.out, Append(ticked, arpeggios[i + 1].id))

tick_vec_skip_after_remove(arpeggios, i, sent, ticked) ==
    IF i >= Len(arpeggios) THEN [arpeggios |-> arpeggios, out |-> sent, ticked |-> ticked]
    ELSE tick_vec_skip_body(arpeggios, i, sent, ticked, play_tick(arpeggios[i + 1].player))

RECURSIVE tick_vec(_, _, _, _)

(* the body of the while loop at index i, r being what play_tick gave *)
tick_vec_body(arpeggios, i, sent, ticked, r) ==
    IF ~r.ret
    THEN tick_vec(RemoveAt(arpeggios, i), i, sent \o r.out,
                  Append(ticked, arpeggios[i + 1].id))
    ELSE tick_vec([arpeggios EXCEPT ![i + 1].player = r.p], i + 1,
                  sent \o r.out, Append(ticked, arpeggios[i + 1].id))

(* the while loop of the TimingClock arm, from index i on *)
tick_vec(arpeggios, i, sent, ticked) ==
    IF i >= Len(arpeggios) THEN [arpeggios |-> arpeggios, out |-> sent, ticked |-> ticked]
    ELSE tick_vec_body(arpeggios, i, sent, ticked, play_tick(arpeggios[i + 1].player))

(* the entry the TimingClock arm pushes for the held notes *)
PressHold_push(a, s) ==
    Append(a.arpeggios,
           [note_set |-> DOMAIN a.held_notes,
            player |-> Player_init(Arpeggio_from(generate_steps(s, Values(a.held_notes)), 1,
                                                 s.finish_pattern)),
            id |-> FreshId(a.arpeggios)])

PressHold_ticked(a, start, pushed, r) ==
    Done([a EXCEPT !.held_notes = IF start THEN EmptyMap ELSE a.held_notes,
                   !.arpeggios = r.arpeggios],
         r.out, r.ticked, {pushed[k].id : k \in 1..Len(pushed)}, "Ok")

PressHold_tick(a, start, pushed) ==
    PressHold_ticked(a, start, pushed, tick_vec(pushed, 0, <<>>, <<>>))

PressHold_drained(a, r) == [a |-> [a EXCEPT !.arpeggios = <<>>], out |-> r.out, ret |-> r.ret]

PressHold_stop_arpeggios(a) ==
    PressHold_drained(a, drain_and_force_stop([k \in 1..Len(a.arpeggios) |->
                                                  a.arpeggios[k].player]))

PressHold_reset(r) == Done([r.a EXCEPT !.held_notes = EmptyMap], r.out, <<>>, {}, r.ret)

PressHold_process(a, m, s, elapsed) ==
    IF IsPedal(m)
    THEN IF a.pedal = (m.b >= 64) THEN Done(a, <<>>, <<>>, {}, "Ok")
         ELSE IF m.b >= 64 THEN Done([a EXCEPT !.pedal = TRUE], <<>>, <<>>, {}, "Ok")
         ELSE Done(PressHold_release_notes(
                       [a EXCEPT !.pedal = FALSE, !.pedal_notes_off = {}],
                       Ascending(a.pedal_notes_off)),
                   <<>>, <<>>, {}, "Ok")
    ELSE IF m.type = "NoteOn"
    THEN IF m.a \in a.pedal_notes_off
         THEN Done([a EXCEPT !.pedal_notes_off = a.pedal_notes_off \ {m.a}], <<>>, <<>>, {}, "Ok")
         ELSE Done([a EXCEPT !.held_notes =
                        MapPut(a.held_notes, m.a, NoteDetails_new(m.c, m.a, m.b, s.fixed_velocity))],
                   <<>>, <<>>, {}, "Ok")
    ELSE IF m.type = "NoteOff"
    THEN IF a.pedal
         THEN Done([a EXCEPT !.pedal_notes_off = a.pedal_notes_off \cup {m.a}], <<>>, <<>>, {}, "Ok")
         ELSE Done(PressHold_release_note(a, m.a), <<>>, <<>>, {}, "Ok")
    ELSE IF m.type = "TimingClock"
    THEN IF DOMAIN a.held_notes # {} /\ elapsed
         THEN PressHold_tick(a, TRUE, PressHold_push(a, s))
         ELSE PressHold_tick(a, FALSE, a.arpeggios)
    ELSE IF m.type = "Reset"
    THEN PressHold_reset(PressHold_stop_arpeggios(a))
    ELSE Done(a, <<>>, <<>>, {}, "Ok")

----------------------------------------------------------------------------
(* arpeggiator/synced.rs: MutatingHold; arpeggio is the Option<Player> *)

NoPlayer == [some |-> FALSE, p |-> IdlePlayer]
SomePlayer(p) == [some |-> TRUE, p |-> p]

MutatingHold_new ==
    [mode |-> "MutatingHold", held_notes |-> <<>>, changed |-> FALSE,
     arpeggio |-> NoPlayer, pedal |-> FALSE, pedal_notes_off |-> {}]

MutatingHold_release_note_changed(a, n) ==
    [a EXCEPT !.held_notes = SelectSeq(a.held_notes, LAMBDA d : d.n # n),
              !.changed = TRUE]

MutatingHold_release_note(a, n) ==
    LET left == SelectSeq(a.held_notes, LAMBDA d : d.n # n)
    IN  [a EXCEPT !.held_notes = left,
                  !.changed = IF left = <<>> THEN TRUE ELSE a.changed]

RECURSIVE MutatingHold_release_notes(_, _)
MutatingHold_release_notes(a, notes_to_release) ==
    IF notes_to_release = <<>> THEN a
    ELSE MutatingHold_release_notes(MutatingHold_release_note(a, Head(notes_to_release)),
                                    Tail(notes_to_release))

MutatingHold_stopped(a, r) ==
    [a |-> [a EXCEPT !.arpeggio = IF r.ret = "Ok" THEN NoPlayer ELSE SomePlayer(r.p)],
     out |-> r.out, ret |-> r.ret]

(* if let Some(arp) = &mut self.arpeggio { arp.force_stop()?; self.arpeggio = None; } *)
MutatingHold_force_stop(a) ==
    IF a.arpeggio.some THEN MutatingHold_stopped(a, force_stop(a.arpeggio.p))
    ELSE [a |-> a, out |-> <<>>, ret |-> "Ok"]

(* an arpeggio of one beat per step *)
Arpeggio_from_beats(steps, finish_steps) == Arpeggio_from(steps, Len(steps), finish_steps)

MutatingHold_mutate_on_release(a, s) ==
    IF a.arpeggio.some
    THEN (IF Len(a.held_notes) <= 1 THEN SomePlayer(stop(a.arpeggio.p))
          ELSE SomePlayer(change_arpeggio(a.arpeggio.p,
                   Arpeggio_from_beats([k \in 1..Len(a.held_notes) |-> <<a.held_notes[k]>>],
                                       s.finish_pattern))))
    ELSE IF a.held_notes = <<>> THEN NoPlayer
    ELSE SomePlayer(Player_init(
             Arpeggio_from_beats([k \in 1..Len(a.held_notes) |-> <<a.held_notes[k]>>],
                                 s.finish_pattern)))

(* the Option<Player> after the first if of the TimingClock arm *)
MutatingHold_mutate(a, s) ==
    IF a.held_notes = <<>>
    THEN (IF a.arpeggio.some THEN SomePlayer(stop(a.arpeggio.p)) ELSE NoPlayer)
    ELSE IF a.arpeggio.some
    THEN SomePlayer(change_arpeggio(a.arpeggio.p,
             Arpeggio_from_beats([k \in 1..Len(a.held_notes) |-> <<a.held_notes[k]>>],
                                 s.finish_pattern)))
    ELSE SomePlayer(Player_init(
             Arpeggio_from_beats([k \in 1..Len(a.held_notes) |-> <<a.held_notes[k]>>],
                                 s.finish_pattern)))

MutatingHold_ticked(a, r) ==
    Done([a EXCEPT !.arpeggio = IF r.ret THEN SomePlayer(r.p) ELSE NoPlayer],
         r.out, <<0>>, {0}, "Ok")

(* the second if of the TimingClock arm *)
MutatingHold_tick(a, arpeggio) ==
    IF arpeggio.some THEN MutatingHold_ticked(a, play_tick(arpeggio.p))
    ELSE Done(a, <<>>, <<>>, {}, "Ok")

MutatingHold_reset(r) == Done([r.a EXCEPT !.held_notes = <<>>], r.out, <<>>, {}, r.ret)

MutatingHold_process_while_stopping(a, m, s) ==
    IF IsPedal(m)
    THEN IF a.pedal = (m.b >= 64) THEN Done(a, <<>>, <<>>, {}, "Ok")
         ELSE IF m.b >= 64 THEN Done([a EXCEPT !.pedal = TRUE], <<>>, <<>>, {}, "Ok")
         ELSE Done(MutatingHold_release_notes(
                       [a EXCEPT !.pedal = FALSE, !.pedal_notes_off = {}],
                       Ascending(a.pedal_notes_off)),
                   <<>>, <<>>, {}, "Ok")
    ELSE IF m.type = "NoteOn"
    THEN IF m.a \in a.pedal_notes_off
         THEN Done([a EXCEPT !.pedal_notes_off = a.pedal_notes_off \ {m.a}], <<>>, <<>>, {}, "Ok")
         ELSE Done([a EXCEPT !.held_notes =
                        Append(a.held_notes, NoteDetails_new(m.c, m.a, m.b, s.fixed_velocity)),
                             !.changed = TRUE],
                   <<>>, <<>>, {}, "Ok")
    ELSE IF m.type = "NoteOff"
    THEN IF a.pedal
         THEN Done([a EXCEPT !.pedal_notes_off = a.pedal_notes_off \cup {m.a}], <<>>, <<>>, {}, "Ok")
         ELSE Done(MutatingHold_release_note(a, m.a), <<>>, <<>>, {}, "Ok")
    ELSE IF m.type = "TimingClock"
    THEN IF a.changed
         THEN MutatingHold_tick([a EXCEPT !.changed = FALSE], MutatingHold_mutate(a, s))
         ELSE MutatingHold_tick(a, a.arpeggio)
    ELSE IF m.type = "Reset"
    THEN MutatingHold_reset(MutatingHold_force_stop(a))
    ELSE Done(a, <<>>, <<>>, {}, "Ok")

MutatingHold_process(a, m, s) ==
    IF IsPedal(m)
    THEN IF a.pedal = (m.b >= 64) THEN Done(a, <<>>, <<>>, {}, "Ok")
         ELSE IF m.b >= 64 THEN Done([a EXCEPT !.pedal = TRUE], <<>>, <<>>, {}, "Ok")
         ELSE Done(MutatingHold_release_notes(
                       [a EXCEPT !.pedal = FALSE, !.pedal_notes_off = {}],
                       Ascending(a.pedal_notes_off)),
                   <<>>, <<>>, {}, "Ok")
    ELSE IF m.type = "NoteOn"
    THEN IF m.a \in a.pedal_notes_off
         THEN Done([a EXCEPT !.pedal_notes_off = a.pedal_notes_off \ {m.a}], <<>>, <<>>, {}, "Ok")
         ELSE Done([a EXCEPT !.held_notes =
                        Append(a.held_notes, NoteDetails_new(m.c, m.a, m.b, s.fixed_velocity)),
                             !.changed = TRUE],
                   <<>>, <<>>, {}, "Ok")
    ELSE IF m.type = "NoteOff"
    THEN IF a.pedal
         THEN Done([a EXCEPT !.pedal_notes_off = a.pedal_notes_off \cup {m.a}], <<>>, <<>>, {}, "Ok")
         ELSE Done(MutatingHold_release_note(a, m.a), <<>>, <<>>, {}, "Ok")
    ELSE IF m.type = "TimingClock"
    THEN IF a.changed /\ (~a.arpeggio.some \/ ~a.arpeggio.p.should_stop)
         THEN MutatingHold_tick([a EXCEPT !.changed = FALSE], MutatingHold_mutate(a, s))
         ELSE MutatingHold_tick(a, a.arpeggio)
    ELSE IF m.type = "Reset"
    THEN MutatingHold_reset(MutatingHold_force_stop(a))
    ELSE Done(a, <<>>, <<>>, {}, "Ok")

----------------------------------------------------------------------------
(* arpeggiator/synced.rs: PedalRecorder. An entry of notes is the NoteDetails  *)
(* and gap: whether its Instant is more than TRIGGER_TIME_MS after the entry   *)
(* before it. ticks_since_last_note is written and never read.                 *)

NoArpeggio == [some |-> FALSE, arp |-> IdlePlayer.arpeggio]
SomeArpeggio(arp) == [some |-> TRUE, arp |-> arp]

PedalRecorder_new ==
    [mode |-> "SyncedPedalRecorder", notes |-> <<>>, thru_notes |-> EmptyMap,
     pedal |-> FALSE, arpeggios |-> EmptyMap, recorded |-> NoArpeggio]

(* the loop that groups the recorded notes into steps, from entry k on *)
RECURSIVE group_steps(_, _, _, _)
group_steps(notes, k, steps, step_notes) ==
    IF k > Len(notes) THEN Append(steps, step_notes)
    ELSE IF k > 1 /\ notes[k].gap
    THEN group_steps(notes, k + 1, Append(steps, step_notes), <<notes[k].d>>)
    ELSE group_steps(notes, k + 1, steps, Append(step_notes, notes[k].d))

(* the TimingClock arm: play_tick on each Player of the map, the finished ones *)
(* removed afterwards                                                          *)
RECURSIVE tick_map(_, _, _, _)

tick_map_body(arpeggios, todo, sent, ticked, r) ==
    tick_map(IF r.ret THEN MapPut(arpeggios, Head(todo), r.p) ELSE MapDel(arpeggios, Head(todo)),
             Tail(todo), sent \o r.out, Append(ticked, Head(todo)))

tick_map(arpeggios, todo, sent, ticked) ==
    IF todo = <<>> THEN [arpeggios |-> arpeggios, out |-> sent, ticked |-> ticked]
    ELSE tick_map_body(arpeggios, todo, sent, ticked, play_tick(arpeggios[Head(todo)]))

PedalRecorder_drained(a, r) ==
    [a |-> [a EXCEPT !.arpeggios = EmptyMap], out |-> r.out, ret |-> r.ret]

PedalRecorder_stop_arpeggios(a) ==
    PedalRecorder_drained(a, drain_and_force_stop(Values(a.arpeggios)))

PedalRecorder_pedal_down(r) ==
    Done([r.a EXCEPT !.pedal = TRUE, !.recorded = NoArpeggio], r.out, <<>>, {}, r.ret)

(* save the recorded arpeggio and start play in the original key *)
PedalRecorder_start(a, recorded, original) ==
    [a EXCEPT !.notes = <<>>,
              !.recorded = SomeArpeggio(recorded),
              !.arpeggios = MapPut(a.arpeggios, original,
                                   Player_init(transpose(recorded, original, original)))]

PedalRecorder_save(a, recorded) == PedalRecorder_start(a, recorded, first_note(recorded, 1))

PedalRecorder_pedal_up(a, s) ==
    Done(IF a.notes = <<>> THEN [a EXCEPT !.pedal = FALSE, !.thru_notes = EmptyMap]
         ELSE PedalRecorder_save([a EXCEPT !.pedal = FALSE, !.thru_notes = EmptyMap],
                                 Arpeggio_from_beats(group_steps(a.notes, 1, <<>>, <<>>),
                                                     s.finish_pattern)),
         send_off(Values(a.thru_notes)), <<>>, {}, "Ok")

PedalRecorder_record(a, m, d, gap) ==
    Done([a EXCEPT !.thru_notes = MapPut(a.thru_notes, m.a, d),
                   !.notes = Append(a.notes, [gap |-> a.notes # <<>> /\ gap, d |-> d])],
         <<m>>, <<>>, {}, "Ok")

PedalRecorder_ticked(a, r) ==
    Done([a EXCEPT !.arpeggios = r.arpeggios], r.out, r.ticked, DOMAIN a.arpeggios, "Ok")

PedalRecorder_reset(r) ==
    Done([r.a EXCEPT !.notes = <<>>, !.thru_notes = EmptyMap, !.pedal = FALSE],
         r.out, <<>>, {}, r.ret)

PedalRecorder_process(a, m, s, gap) ==
    IF IsPedal(m)
    THEN IF ~a.pedal /\ m.b >= 64
         THEN PedalRecorder_pedal_down(PedalRecorder_stop_arpeggios(a))
         ELSE IF a.pedal /\ m.b < 64 THEN PedalRecorder_pedal_up(a, s)
         ELSE Done(a, <<>>, <<>>, {}, "Ok")
    ELSE IF m.type = "NoteOn"
    THEN IF a.pedal
         THEN PedalRecorder_record(a, m, NoteDetails_new(m.c, m.a, m.b, s.fixed_velocity), gap)
         ELSE IF m.a \in DOMAIN a.arpeggios THEN Done(a, <<>>, <<>>, {}, "Ok")
         ELSE IF a.recorded.some
         THEN Done([a EXCEPT !.arpeggios = MapPut(a.arpeggios, m.a,
                        Player_init(transpose(a.recorded.arp,
                                              first_note(a.recorded.arp, 1), m.a)))],
                   <<>>, <<>>, {}, "Ok")
         ELSE Done(a, <<>>, <<>>, {}, "Ok")
    ELSE IF m.type = "NoteOff"
    THEN IF a.pedal
         THEN Done([a EXCEPT !.thru_notes = MapDel(a.thru_notes, m.a)], <<m>>, <<>>, {}, "Ok")
         ELSE IF m.a \in DOMAIN a.arpeggios
         THEN Done([a EXCEPT !.arpeggios[m.a] = stop(a.arpeggios[m.a])], <<>>, <<>>, {}, "Ok")
         ELSE Done(a, <<>>, <<>>, {}, "Ok")
    ELSE IF m.type = "TimingClock"
    THEN PedalRecorder_ticked(a, tick_map(a.arpeggios, Ascending(DOMAIN a.arpeggios),
                                          <<>>, <<>>))
    ELSE IF m.type = "Reset"
    THEN PedalRecorder_reset(PedalRecorder_stop_arpeggios(a))
    ELSE Done(a, <<>>, <<>>, {}, "Ok")

----------------------------------------------------------------------------
(* arpeggiator/full_length.rs: EvenMutator.  state is the variant of State;    *)
(* player holds the Arpeggio of Starting (in player.arpeggio) and the Player   *)
(* of Playing; wait is the countdown of Starting.                              *)

START_THRESHOLD_TICKS == 2

EvenMutator_new == [mode |-> "EvenMutator", state |-> "None", player |-> IdleFl, wait |-> 0]

EvenMutator_velocity(m, s) == IF s.fixed_velocity # -1 THEN s.fixed_velocity ELSE m.b

EvenMutator_ticked_keep(a, r) ==
    Done([a EXCEPT !.state = "Playing", !.player = r.p, !.wait = 0],
         r.out, <<0>>, {0}, "Ok")

(* the State after play_tick gave r: Playing if it returned true, None if not *)
EvenMutator_ticked(a, r) ==
    Done([a EXCEPT !.state = IF r.ret THEN "Playing" ELSE "None",
                   !.player = IF r.ret THEN r.p ELSE IdleFl,
                   !.wait = 0],
         r.out, <<0>>, {0}, "Ok")

EvenMutator_process(a, m, s) ==
    IF m.type = "NoteOn"
    THEN IF a.state = "None"
         THEN Done([a EXCEPT !.state = "Starting",
                             !.player = Fl_init(Fl_from(m.a, EvenMutator_velocity(m, s),
                                                        IF s.fixed_steps = -1 THEN 1
                                                        ELSE s.fixed_steps,
                                                        s.pattern)),
                             !.wait = START_THRESHOLD_TICKS],
                   <<>>, <<>>, {}, "Ok")
         ELSE Done([a EXCEPT !.player.arpeggio.notes =
                                 Fl_note_on(@, m.a, EvenMutator_velocity(m, s))],
                   <<>>, <<>>, {}, "Ok")
    ELSE IF m.type = "NoteOff"
    THEN IF a.state = "None" THEN Done(a, <<>>, <<>>, {}, "Ok")
         ELSE Done([a EXCEPT !.player.arpeggio.notes = Fl_note_off(@, m.a)],
                   <<>>, <<>>, {}, "Ok")
    ELSE IF m.type = "TimingClock"
    THEN IF a.state = "Playing" THEN EvenMutator_ticked(a, Fl_play_tick(a.player))
         ELSE IF a.state = "Starting" /\ a.wait = 0
         THEN EvenMutator_ticked(a, Fl_play_tick(Fl_init(a.player.arpeggio)))
         ELSE IF a.state = "Starting"
         THEN Done([a EXCEPT !.wait = a.wait - 1], <<>>, <<>>, {}, "Ok")
         ELSE Done(a, <<>>, <<>>, {}, "Ok")
    ELSE Done(a, <<>>, <<>>, {}, "Ok")

EvenMutator_stopped(a, r) ==
    [a |-> IF r.ret = "Ok" THEN EvenMutator_new ELSE [a EXCEPT !.player = r.p],
     out |-> r.out, ret |-> r.ret]

EvenMutator_stop_arpeggios(a) ==
    IF a.state = "Playing" THEN EvenMutator_stopped(a, Fl_force_stop(a.player))
    ELSE [a |-> a, out |-> <<>>, ret |-> "Ok"]

----------------------------------------------------------------------------
(* arpeggiator/full_length.rs: TriggeredChords, and presets.rs.  A Preset is  *)
(* its trigger and its steps, each the list of the notes its NoteNames stand  *)
(* for; not_playing and playing are the sets of Presets.  A HashSet is gone   *)
(* through in an order of its own: Drained is one such order.                 *)

SEND_CHANNEL == 1

RECURSIVE Drained(_)
Drained(S) ==
    IF S = {} THEN <<>>
    ELSE LET x == CHOOSE y \in S : TRUE IN <<x>> \o Drained(S \ {x})

is_triggered_by(preset, notes) ==
    IF Len(preset.trigger) # Cardinality(notes) THEN FALSE
    ELSE \A k \in 1..Len(preset.trigger) : preset.trigger[k] \in notes

TriggeredChords_new(presets) ==
    [mode |-> "TriggeredChords",
     not_playing |-> {presets[k] : k \in 1..Len(presets)},
     notes |-> {}, playing |-> {}]

TriggeredChords_play(preset, velocity) ==
    [k \in 1..Len(preset.steps) |-> NoteOn(SEND_CHANNEL, preset.steps[k], velocity)]

TriggeredChords_stop(preset) ==
    [k \in 1..Len(preset.steps) |-> NoteOff(SEND_CHANNEL, preset.steps[k], 0)]

(* what the loop over the presets sends: play or stop of each in turn *)
RECURSIVE PlayAll(_, _)
PlayAll(presets, velocity) ==
    IF presets = <<>> THEN <<>>
    ELSE TriggeredChords_play(Head(presets), velocity) \o PlayAll(Tail(presets), velocity)

RECURSIVE StopAll(_)
StopAll(presets) ==
    IF presets = <<>> THEN <<>>
    ELSE TriggeredChords_stop(Head(presets)) \o StopAll(Tail(presets))

(* the presets the NoteOn arm plays, the NoteOff arm stops *)
should_play(a, notes) == {p \in a.not_playing : is_triggered_by(p, notes)}
should_stop(a, notes) == {p \in a.playing : ~is_triggered_by(p, notes)}

TriggeredChords_process_start_only(a, m, s) ==
    IF m.type = "NoteOn"
    THEN Done([a EXCEPT !.notes = a.notes \cup {m.a},
                        !.not_playing = a.not_playing \ should_play(a, a.notes \cup {m.a}),
                        !.playing = a.playing \cup should_play(a, a.notes \cup {m.a})],
              PlayAll(Drained(should_play(a, a.notes \cup {m.a})),
                      IF s.fixed_velocity # -1 THEN s.fixed_velocity ELSE m.b),
              <<>>, {}, "Ok")
    ELSE IF m.type = "NoteOff"
    THEN Done([a EXCEPT !.notes = a.notes \ {m.a}], <<>>, <<>>, {}, "Ok")
    ELSE Done(a, <<>>, <<>>, {}, "Ok")

TriggeredChords_process(a, m, s) ==
    IF m.type = "NoteOn"
    THEN Done([a EXCEPT !.notes = a.notes \cup {m.a},
                        !.not_playing = a.not_playing \ should_play(a, a.notes \cup {m.a}),
                        !.playing = a.playing \cup should_play(a, a.notes \cup {m.a})],
              PlayAll(Drained(should_play(a, a.notes \cup {m.a})),
                      IF s.fixed_velocity # -1 THEN s.fixed_velocity ELSE m.b),
              <<>>, {}, "Ok")
    ELSE IF m.type = "NoteOff"
    THEN Done([a EXCEPT !.notes = a.notes \ {m.a},
                        !.playing = a.playing \ should_stop(a, a.notes \ {m.a}),
                        !.not_playing = a.not_playing \cup should_stop(a, a.notes \ {m.a})],
              StopAll(Drained(should_stop(a, a.notes \ {m.a}))),
              <<>>, {}, "Ok")
    ELSE Done(a, <<>>, <<>>, {}, "Ok")

TriggeredChords_stop_arpeggios_silent(a) ==
    [a |-> [a EXCEPT !.playing = {}, !.not_playing = a.not_playing \cup a.playing],
     out |-> <<>>, ret |-> "Ok"]

TriggeredChords_stop_arpeggios(a) ==
    [a |-> [a EXCEPT !.playing = {}, !.not_playing = a.not_playing \cup a.playing],
     out |-> StopAll(Drained(a.playing)), ret |-> "Ok"]

(* the preset table of the settings file *)
PresetTable ==
    <<[trigger |-> <<60>>, steps |-> <<60, 64, 67>>],
      [trigger |-> <<60, 62>>, steps |-> <<62, 64>>],
      [trigger |-> <<62, 62>>, steps |-> <<72>>]>>

----------------------------------------------------------------------------
(* arpeggiator/timed.rs: the timed modes.  A timed Player is its worker thread  *)
(* and stop flag, the Worker of arpeggio/timed.rs; a mode's arpeggios map holds *)
(* the Workers of the Players it owns.  A Player the mode takes out of the map  *)
(* and lets go without joining leaves its worker running: dropped lists those,  *)
(* each with the key it was started for.  What one call of process gives is the *)
(* mode after it, what it sent, the Players it dropped, and Ok or the error.    *)

TimedDone(a, sent, dropped) == [a |-> a, out |-> sent, dropped |-> dropped, ret |-> "Ok"]

Dropped(arpeggios, n) == [key |-> n, w |-> [arpeggios[n] EXCEPT !.should_stop = TRUE]]

(* drain_and_stop: every Player of the map with its stop flag set *)
drain_and_stop(arpeggios) ==
    [k \in 1..Cardinality(DOMAIN arpeggios) |->
        Dropped(arpeggios, Ascending(DOMAIN arpeggios)[k])]

(* ensure_stopped: what the worker sends from where it is until it exits *)
RECURSIVE Joined(_, _)

(* the worker's next step from where it is *)
play_step(w) == IF w.pc = "sleep" THEN play_wake(w) ELSE play_check(w)

Joined(w, sent) ==
    IF w.pc = "exited" THEN sent ELSE Joined(play_step(w).w, sent \o play_step(w).out)

(* drain_and_wait_for_stop over the stopped Players, joined one after another; *)
(* how the last messages of different workers interleave is not modelled       *)
RECURSIVE drain_and_wait_for_stop(_, _)
drain_and_wait_for_stop(players, sent) ==
    IF players = <<>> THEN sent
    ELSE drain_and_wait_for_stop(Tail(players), Joined(Head(players).w, sent))

(* arpeggio/timed.rs: Arpeggio::from, a step of one note for each note; the *)
(* durations between the Instants are the lengths of the sleeps            *)
Timed_from(notes) == [k \in 1..Len(notes) |-> <<notes[k]>>]

(* RepeatRecorder: held_notes and last_note_off keep the Instant of the press *)
NoNote == [some |-> FALSE, i |-> 0, d |-> NoteDetails(0, 0, 0)]

RepeatRecorder_new ==
    [mode |-> "RepeatRecorder", held_notes |-> EmptyMap, last_note_off |-> NoNote,
     arpeggios |-> EmptyMap]

RECURSIVE sort_by_instant_latest_first(_)
sort_by_instant_latest_first(S) ==
    IF S = {} THEN <<>>
    ELSE LET first == CHOOSE x \in S : \A y \in S : x.i >= y.i
         IN  <<first.d>> \o sort_by_instant_latest_first(S \ {first})

(* notes.sort_by(|(a, _), (b, _)| a.cmp(&b)) over presses of different Instants *)
RECURSIVE sort_by_instant(_)
sort_by_instant(S) ==
    IF S = {} THEN <<>>
    ELSE LET first == CHOOSE x \in S : \A y \in S : x.i <= y.i
         IN  <<first.d>> \o sort_by_instant(S \ {first})

(* the Player that insert(n, ..) puts out of the map, if there is one *)
Replaced(arpeggios, n) ==
    IF n \in DOMAIN arpeggios THEN <<[key |-> n, w |-> arpeggios[n]]>> ELSE <<>>

RepeatRecorder_process(a, m, s, now) ==
    IF m.type = "NoteOn"
    THEN IF a.last_note_off.some /\ a.last_note_off.d.n = m.a
         THEN TimedDone([a EXCEPT !.held_notes = EmptyMap,
                                  !.arpeggios = MapPut(a.arpeggios, m.a,
                                      Worker_start(
                                          Timed_from(sort_by_instant(
                                              {a.held_notes[k] : k \in DOMAIN a.held_notes}
                                              \cup {[i |-> a.last_note_off.i,
                                                     d |-> a.last_note_off.d]})),
                                          s.finish_pattern))],
                        <<>>, Replaced(a.arpeggios, m.a))
         ELSE TimedDone([a EXCEPT !.held_notes =
                             MapPut(a.held_notes, m.a,
                                    [i |-> now,
                                     d |-> NoteDetails_new(m.c, m.a, m.b, s.fixed_velocity)])],
                        <<>>, <<>>)
    ELSE IF m.type = "NoteOff"
    THEN IF m.a \in DOMAIN a.arpeggios
         THEN TimedDone([a EXCEPT !.arpeggios = MapDel(a.arpeggios, m.a)], <<>>,
                        <<Dropped(a.arpeggios, m.a)>>)
         ELSE IF m.a \in DOMAIN a.held_notes
         THEN TimedDone([a EXCEPT !.held_notes = MapDel(a.held_notes, m.a),
                                  !.last_note_off = [some |-> TRUE,
                                                     i |-> a.held_notes[m.a].i,
                                                     d |-> a.held_notes[m.a].d]],
                        <<>>, <<>>)
         ELSE TimedDone([a EXCEPT !.last_note_off = NoNote], <<>>, <<>>)
    ELSE IF m.type = "Reset"
    THEN TimedDone([a EXCEPT !.held_notes = EmptyMap, !.last_note_off = NoNote,
                             !.arpeggios = EmptyMap],
                   drain_and_wait_for_stop(drain_and_stop(a.arpeggios), <<>>), <<>>)
    ELSE TimedDone(a, <<>>, <<>>)

(* the timed PedalRecorder: notes are the recorded NoteDetails in the order *)
(* played, recorded the steps of the Option<Arpeggio>                       *)
NoRecorded == [some |-> FALSE, steps |-> <<>>]

TimedPedalRecorder_new ==
    [mode |-> "TimedPedalRecorder", notes |-> <<>>, thru_notes |-> EmptyMap,
     pedal |-> FALSE, arpeggios |-> EmptyMap, recorded |-> NoRecorded]

(* arpeggio/timed.rs: Arpeggio::first_note *)
Timed_first_note(steps) ==
    highest_note(steps[CHOOSE k \in 1..Len(steps) :
                           /\ steps[k] # <<>>
                           /\ \A j \in 1..(k - 1) : steps[j] = <<>>])

(* arpeggio/timed.rs: Arpeggio::transpose *)
Timed_transpose(steps, from, to) ==
    [k \in 1..Len(steps) |-> Step_transpose(steps[k], to - from)]

(* insert a Player for key n that plays the recorded steps from pitch n *)
TimedPedalRecorder_insert(a, n, steps, s, sent) ==
    TimedDone([a EXCEPT !.arpeggios = MapPut(a.arpeggios, n,
                            Worker_start(Timed_transpose(steps, Timed_first_note(steps), n),
                                         s.finish_pattern))],
              sent, Replaced(a.arpeggios, n))

TimedPedalRecorder_note_off_all(a, n) ==
    TimedDone([a EXCEPT !.arpeggios = EmptyMap], <<>>, drain_and_stop(a.arpeggios))

(* the NoteOff arm with the pedal up *)
TimedPedalRecorder_note_off(a, n) ==
    IF n \in DOMAIN a.arpeggios
    THEN TimedDone([a EXCEPT !.arpeggios = MapDel(a.arpeggios, n)], <<>>,
                   <<Dropped(a.arpeggios, n)>>)
    ELSE TimedDone(a, <<>>, <<>>)

TimedPedalRecorder_process(a, m, s) ==
    IF IsPedal(m)
    THEN IF m.b >= 64
         THEN TimedDone([a EXCEPT !.pedal = TRUE, !.recorded = NoRecorded,
                                  !.arpeggios = EmptyMap],
                        <<>>, drain_and_stop(a.arpeggios))
         ELSE IF a.notes = <<>>
         THEN TimedDone([a EXCEPT !.pedal = FALSE, !.thru_notes = EmptyMap],
                        send_off(Values(a.thru_notes)), <<>>)
         ELSE TimedPedalRecorder_insert(
                  [a EXCEPT !.pedal = FALSE, !.thru_notes = EmptyMap, !.notes = <<>>,
                            !.recorded = [some |-> TRUE, steps |-> Timed_from(a.notes)]],
                  Timed_first_note(Timed_from(a.notes)), Timed_from(a.notes), s,
                  send_off(Values(a.thru_notes)))
    ELSE IF m.type = "NoteOn"
    THEN IF a.pedal
         THEN TimedDone([a EXCEPT !.thru_notes =
                             MapPut(a.thru_notes, m.a,
                                    NoteDetails_new(m.c, m.a, m.b, s.fixed_velocity)),
                                  !.notes = Append(a.notes,
                                    NoteDetails_new(m.c, m.a, m.b, s.fixed_velocity))],
                        <<m>>, <<>>)
         ELSE IF m.a \in DOMAIN a.arpeggios THEN TimedDone(a, <<>>, <<>>)
         ELSE IF a.recorded.some
         THEN TimedPedalRecorder_insert(a, m.a, a.recorded.steps, s, <<>>)
         ELSE TimedDone(a, <<>>, <<>>)
    ELSE IF m.type = "NoteOff"
    THEN IF a.pedal
         THEN TimedDone([a EXCEPT !.thru_notes = MapDel(a.thru_notes, m.a)], <<m>>, <<>>)
         ELSE TimedPedalRecorder_note_off(a, m.a)
    ELSE IF m.type = "Reset"
    THEN TimedDone([a EXCEPT !.notes = <<>>, !.pedal = FALSE, !.arpeggios = EmptyMap],
                   drain_and_wait_for_stop(drain_and_stop(a.arpeggios), <<>>), <<>>)
    ELSE TimedDone(a, <<>>, <<>>)

(* stop_arpeggios of RepeatRecorder and of the timed PedalRecorder: the *)
(* Players of the map are stopped and joined                            *)
Timed_stop_arpeggios(a) ==
    TimedDone([a EXCEPT !.arpeggios = EmptyMap],
              drain_and_wait_for_stop(drain_and_stop(a.arpeggios), <<>>), <<>>)

timed_process(a, m, s, now) ==
    IF a.mode = "RepeatRecorder" THEN RepeatRecorder_process(a, m, s, now)
    ELSE TimedPedalRecorder_process(a, m, s)

----------------------------------------------------------------------------
(* status.reset_beat(): how many times process calls it for message m; t is *)
(* the reading of the clock as in process                                   *)

reset_beats(a, m, s, t) ==
    IF a.mode = "PressHold"
    THEN (IF m = TimingClock /\ DOMAIN a.held_notes # {} /\ t THEN 1 ELSE 0)
    ELSE IF a.mode = "MutatingHold"
    THEN (IF m = TimingClock /\ a.changed /\ ~a.arpeggio.some /\ a.held_notes # <<>>
          THEN 1 ELSE 0)
    ELSE IF a.mode = "SyncedPedalRecorder"
    THEN (IF IsPedal(m)
          THEN (IF ~a.pedal /\ m.b >= 64 THEN 1
                ELSE IF a.pedal /\ m.b < 64 /\ a.notes # <<>> THEN 1 ELSE 0)
          ELSE IF /\ m.type = "NoteOn" /\ ~a.pedal
                  /\ m.a \notin DOMAIN a.arpeggios /\ a.recorded.some
          THEN 1 ELSE 0)
    ELSE IF a.mode = "EvenMutator"
    THEN (IF m = TimingClock /\ a.state = "Starting" /\ a.wait = 0 THEN 1 ELSE 0)
    ELSE IF a.mode = "RepeatRecorder"
    THEN (IF m.type = "NoteOn" /\ a.last_note_off.some /\ a.last_note_off.d.n = m.a
          THEN 1 ELSE 0)
    ELSE IF a.mode = "TimedPedalRecorder"
    THEN (IF IsPedal(m)
          THEN (IF m.b >= 64 \/ a.notes # <<>> THEN 1 ELSE 0)
          ELSE IF /\ m.type = "NoteOn" /\ ~a.pedal
                  /\ m.a \notin DOMAIN a.arpeggios /\ a.recorded.some
          THEN 1 ELSE 0)
    ELSE IF a.mode = "TriggeredChords"
    THEN (IF m.type = "NoteOn" THEN Cardinality(should_play(a, a.notes \cup {m.a})) ELSE 0)
    ELSE 0

----------------------------------------------------------------------------
(* what an iteration of the dispatcher did: the Players play_tick was called  *)
(* on and the Players held, the mode whose process ran, whether the iteration *)
(* processed a Reset or replaced the mode, and if so the note-ons less the    *)
(* note-offs sent since the last such iteration, and how many times the       *)
(* status was told to reset the beat                                          *)

NoObs ==
    [ticked |-> <<>>, held |-> {}, by |-> "none", ended |-> FALSE, hanging |-> NoSound,
     beat |-> 0]

(* no function called yet *)
NoArgs == [fn |-> "none", pattern |-> "Up", notes |-> <<>>, steps |-> 0, a |-> 0, b |-> 0]
NoResult == [fn |-> "none", steps |-> <<>>, first |-> <<>>, once |-> <<>>, twice |-> <<>>]

(* no clock read and no key pressed yet *)
NoInput ==
    [threads |-> {}, finished |-> {}, include_clock_ticks |-> FALSE, prog_change |-> FALSE,
     left |-> 0, sent |-> <<>>, queue |-> <<>>, delivered |-> <<>>, pc |-> "check",
     err |-> "none"]

NoHistory == [now |-> 0, pressed |-> <<>>]

----------------------------------------------------------------------------
(* The routers on their own: one router, fed any sequence of messages. *)

PressHoldSettings == Settings("PressHold", FALSE, -1, -1, -1, "Up")
MutatingHoldSettings == Settings("MutatingHold", TRUE, -1, -1, -1, "Up")
PedalRecorderSettings == Settings("SyncedPedalRecorder", FALSE, -1, -1, -1, "Up")
FixedVelocitySettings == Settings("PressHold", FALSE, 64, -1, -1, "Up")

WithProgramInfo(msb, lsb, pc, settings) ==
    [msb |-> msb, lsb |-> lsb, pc |-> pc, settings |-> settings]

(* a settings file for the specific router (pc is 1-based in the file) *)
SettingsList ==
    <<WithProgramInfo(0, 0, 1, PressHoldSettings),
      WithProgramInfo(0, 0, 2, MutatingHoldSettings),
      WithProgramInfo(0, 0, 3, PedalRecorderSettings),
      WithProgramInfo(0, 0, 4, FixedVelocitySettings),
      WithProgramInfo(1, 0, 1, MutatingHoldSettings),
      WithProgramInfo(0, 1, 2, PressHoldSettings)>>

(* a settings file for the wraparound router *)
WraparoundList == <<passthrough, PressHoldSettings, MutatingHoldSettings>>

MaxBank == 1        \* bank select values are 0..MaxBank and U7_MAX
MaxProgram == 3     \* program numbers are 0..MaxProgram and U7_MAX

BankValues == 0..MaxBank \cup {U7_MAX}
ProgramValues == 0..MaxProgram \cup {U7_MAX}

RouterMessages ==
    {ControlChange(c, f, v) : c \in {1, 2}, f \in {BANK_SELECT, BANK_SELECT_LSB, 64},
                              v \in BankValues}
    \cup {ProgramChange(c, p) : c \in {1, 2}, p \in ProgramValues}
    \cup {NoteOn(1, 60, 100), NoteOff(1, 60, 0), TimingClock, Reset}

IdleRouter == SpecificProgramChanges_new(<<>>, passthrough)

(* the bank select values and the program (1-based) of the most recent *)
(* channel-1 Program Change, as an observer of the input would note them *)
NoBank == [msb |-> 0, lsb |-> 0, selected |-> FALSE, key |-> <<0, 0, 0>>]

Observe(b, message) ==
    IF message.c # 1 THEN b
    ELSE IF message.type = "ControlChange" /\ message.a = 0 THEN [b EXCEPT !.msb = message.b]
    ELSE IF message.type = "ControlChange" /\ message.a = 32 THEN [b EXCEPT !.lsb = message.b]
    ELSE IF message.type = "ProgramChange"
    THEN [b EXCEPT !.selected = TRUE, !.key = <<b.msb, b.lsb, message.a + 1>>]
    ELSE b

RouterInit ==
    /\ router \in {SpecificProgramChanges_new(SettingsList, passthrough),
                   WraparoundProgramChanges_new(WraparoundList)}
    /\ received = NoMessage /\ routed = NoMessage
    /\ bank = NoBank
    /\ kind = "none" /\ player = IdlePlayer /\ fl = IdleFl /\ worker = IdleWorker
    /\ finish_pattern = FALSE /\ alive = FALSE
    /\ out = <<>> /\ sounding = NoSound /\ ret = "none" /\ lastOp = "init"
    /\ existing_settings = passthrough /\ arpeggiator = Passthrough_new /\ keys = {} /\ obs = NoObs
    /\ args = NoArgs /\ result = NoResult
    /\ threads = <<>> /\ history = NoHistory /\ midi_in = NoInput

RouterReceive ==
    /\ \E message \in RouterMessages :
          LET r == passthrough_midi(router, message)
          IN  /\ router' = r.r
              /\ routed' = r.m
              /\ received' = message
              /\ bank' = Observe(bank, message)
              /\ lastOp' = "passthrough_midi"
    /\ UNCHANGED <<pvars, out, sounding, ret, dvars, fvars, tvars, qvars>>

RouterNext == RouterReceive

SpecRouter == RouterInit /\ [][RouterNext]_vars

----------------------------------------------------------------------------
(* The Players on their own: one Player, driven by any interleaving of the   *)
(* operations its owner (or, for the timed Player, its worker) can perform.  *)

A4 == NoteDetails(1, 60, 100)
B4 == NoteDetails(1, 64, 100)

(* two families of steps: single notes, a rest (an empty step), a chord *)
StepOf(family, k) ==
    IF family = 1
    THEN (IF k % 3 = 1 THEN <<A4>> ELSE IF k % 3 = 2 THEN <<B4>> ELSE <<A4, B4>>)
    ELSE (IF k % 3 = 1 THEN <<B4>> ELSE IF k % 3 = 2 THEN <<>> ELSE <<A4>>)

StepLists == {[k \in 1..len |-> StepOf(family, k)] : len \in 1..MaxSteps, family \in 1..2}

(* the arpeggios the modes build: one beat in all (PressHold), or one beat per *)
(* step (MutatingHold, PedalRecorder)                                          *)
Arpeggios(finish) ==
    {Arpeggio_from(steps, 1, finish) : steps \in StepLists}
    \cup {Arpeggio_from(steps, Len(steps), finish) : steps \in StepLists}
    \cup {from_steps(steps, finish) : steps \in StepLists}

FlPitches == {0, 60, 126, 127}
FlVelocities == {100}
FlNotesPerBeat == {4, 8}

BoolStr(b) == IF b THEN "true" ELSE "false"

PlayersInit ==
    /\ kind \in {"synced", "full", "timed"}
    /\ finish_pattern \in BOOLEAN
    /\ player \in IF kind = "synced"
                  THEN {Player_init(a) : a \in Arpeggios(finish_pattern)}
                  ELSE {IdlePlayer}
    /\ fl \in IF kind = "full"
              THEN {Fl_init(Fl_from(n, v, k, pat)) :
                        n \in {x \in FlPitches : Fl_in_bounds(x)}, v \in FlVelocities, k \in FlNotesPerBeat,
                        pat \in {"Up", "Down"}}
              ELSE {IdleFl}
    /\ worker \in IF kind = "timed"
                  THEN {Worker_start(steps, finish_pattern) : steps \in StepLists}
                  ELSE {IdleWorker}
    /\ alive = TRUE
    /\ out = <<>>
    /\ sounding = NoSound
    /\ ret = "none"
    /\ lastOp = "init"
    /\ router = IdleRouter /\ received = NoMessage /\ routed = NoMessage /\ bank = NoBank
    /\ existing_settings = passthrough /\ arpeggiator = Passthrough_new /\ keys = {} /\ obs = NoObs
    /\ args = NoArgs /\ result = NoResult
    /\ threads = <<>> /\ history = NoHistory /\ midi_in = NoInput

Emit(msgs, r, op) ==
    /\ out' = msgs
    /\ sounding' = Sound(sounding, msgs)
    /\ ret' = r
    /\ lastOp' = op

SyncedPlayTick ==
    /\ kind = "synced" /\ alive
    /\ LET r == play_tick(player)
       IN  /\ player' = r.p
           /\ alive' = r.ret
           /\ Emit(r.out, BoolStr(r.ret), "play_tick")
    /\ UNCHANGED <<kind, fl, worker, finish_pattern, rvars, dvars, fvars, tvars, qvars>>

SyncedChangeArpeggio ==
    /\ kind = "synced" /\ alive
    /\ \E a \in Arpeggios(finish_pattern) :
          player' = change_arpeggio(player, a)
    /\ Emit(<<>>, "Ok", "change_arpeggio")
    /\ UNCHANGED <<kind, fl, worker, finish_pattern, alive, rvars, dvars, fvars, tvars, qvars>>

SyncedStop ==
    /\ kind = "synced" /\ alive
    /\ player' = stop(player)
    /\ Emit(<<>>, "none", "stop")
    /\ UNCHANGED <<kind, fl, worker, finish_pattern, alive, rvars, dvars, fvars, tvars, qvars>>

SyncedForceStop ==
    /\ kind = "synced" /\ alive
    /\ LET r == force_stop(player)
       IN  /\ player' = r.p
           /\ alive' = FALSE
           /\ Emit(r.out, r.ret, "force_stop")
    /\ UNCHANGED <<kind, fl, worker, finish_pattern, rvars, dvars, fvars, tvars, qvars>>

FlPlayTick ==
    /\ kind = "full" /\ alive
    /\ LET r == Fl_play_tick(fl)
       IN  /\ fl' = r.p
           /\ alive' = r.ret
           /\ Emit(r.out, BoolStr(r.ret), "play_tick")
    /\ UNCHANGED <<kind, player, worker, finish_pattern, rvars, dvars, fvars, tvars, qvars>>

FlNoteOn ==
    /\ kind = "full" /\ alive
    /\ \E n \in FlPitches, v \in FlVelocities :
          /\ received' = NoteOn(FL_CHANNEL, n, v)
          /\ IF Fl_in_bounds(n)
             THEN /\ fl' = [fl EXCEPT !.arpeggio.notes = Fl_note_on(@, n, v)]
                  /\ alive' = alive
                  /\ Emit(<<>>, "none", "note_on")
             ELSE /\ fl' = fl
                  /\ alive' = FALSE
                  /\ Emit(<<>>, "panic", "note_on")
    /\ UNCHANGED <<kind, player, worker, finish_pattern, router, routed, bank, dvars, fvars,
                   tvars, qvars>>

FlNoteOff ==
    /\ kind = "full" /\ alive
    /\ \E n \in FlPitches :
          /\ received' = NoteOff(FL_CHANNEL, n, 0)
          /\ IF Fl_in_bounds(n)
             THEN /\ fl' = [fl EXCEPT !.arpeggio.notes = Fl_note_off(@, n)]
                  /\ alive' = alive
                  /\ Emit(<<>>, "none", "note_off")
             ELSE /\ fl' = fl
                  /\ alive' = FALSE
                  /\ Emit(<<>>, "panic", "note_off")
    /\ UNCHANGED <<kind, player, worker, finish_pattern, router, routed, bank, dvars, fvars,
                   tvars, qvars>>

FlForceStop ==
    /\ kind = "full" /\ alive
    /\ LET r == Fl_force_stop(fl)
       IN  /\ fl' = r.p
           /\ alive' = FALSE
           /\ Emit(r.out, r.ret, "force_stop")
    /\ UNCHANGED <<kind, player, worker, finish_pattern, rvars, dvars, fvars, tvars, qvars>>

TimedCheck ==
    /\ kind = "timed" /\ worker.pc = "check"
    /\ LET r == play_check(worker)
       IN  /\ worker' = r.w
           /\ alive' = (r.w.pc # "exited")
           /\ Emit(r.out, "none", "play_check")
    /\ UNCHANGED <<kind, player, fl, finish_pattern, rvars, dvars, fvars, tvars, qvars>>

TimedWake ==
    /\ kind = "timed" /\ worker.pc = "sleep"
    /\ LET r == play_wake(worker)
       IN  /\ worker' = r.w
           /\ Emit(r.out, "none", "play_wake")
    /\ UNCHANGED <<kind, player, fl, finish_pattern, alive, rvars, dvars, fvars, tvars, qvars>>

TimedStop ==
    /\ kind = "timed" /\ worker.pc # "exited" /\ ~worker.should_stop
    /\ worker' = [worker EXCEPT !.should_stop = TRUE]
    /\ Emit(<<>>, "none", "stop")
    /\ UNCHANGED <<kind, player, fl, finish_pattern, alive, rvars, dvars, fvars, tvars, qvars>>

PlayersNext ==
    \/ SyncedPlayTick \/ SyncedChangeArpeggio \/ SyncedStop \/ SyncedForceStop
    \/ FlPlayTick \/ FlNoteOn \/ FlNoteOff \/ FlForceStop
    \/ TimedCheck \/ TimedWake \/ TimedStop

SpecPlayers == PlayersInit /\ [][PlayersNext]_vars

(* the worker thread of a timed Player is scheduled and its sleeps end *)
SpecPlayersFair == SpecPlayers /\ WF_vars(TimedCheck) /\ WF_vars(TimedWake)

----------------------------------------------------------------------------
(* arpeggiator.rs: ArpeggiatorMode::create, and the modes behind the trait *)

create(mode) ==
    IF mode = "PressHold" THEN PressHold_new
    ELSE IF mode = "MutatingHold" THEN MutatingHold_new
    ELSE IF mode = "SyncedPedalRecorder" THEN PedalRecorder_new
    ELSE IF mode = "EvenMutator" THEN EvenMutator_new
    ELSE IF mode = "RepeatRecorder" THEN RepeatRecorder_new
    ELSE IF mode = "TimedPedalRecorder" THEN TimedPedalRecorder_new
    ELSE IF mode = "TriggeredChords" THEN TriggeredChords_new(PresetTable)
    ELSE Passthrough_new

OutRet(r) == [out |-> r.out, ret |-> r.ret]

stop_arpeggios_skipped(a) == [out |-> <<>>, ret |-> "Ok"]

(* stop_arpeggios of the mode: what it sent, and Ok or the error *)
stop_arpeggios(a) ==
    IF a.mode = "PressHold" THEN OutRet(PressHold_stop_arpeggios(a))
    ELSE IF a.mode = "MutatingHold" THEN OutRet(MutatingHold_force_stop(a))
    ELSE IF a.mode = "SyncedPedalRecorder" THEN OutRet(PedalRecorder_stop_arpeggios(a))
    ELSE IF a.mode = "EvenMutator" THEN OutRet(EvenMutator_stop_arpeggios(a))
    ELSE IF a.mode \in {"RepeatRecorder", "TimedPedalRecorder"}
    THEN OutRet(Timed_stop_arpeggios(a))
    ELSE IF a.mode = "TriggeredChords" THEN OutRet(TriggeredChords_stop_arpeggios(a))
    ELSE [out |-> <<>>, ret |-> "Ok"]

process(a, m, s, t) ==
    IF a.mode = "PressHold" THEN PressHold_process(a, m, s, t)
    ELSE IF a.mode = "MutatingHold" THEN MutatingHold_process(a, m, s)
    ELSE IF a.mode = "SyncedPedalRecorder" THEN PedalRecorder_process(a, m, s, t)
    ELSE IF a.mode = "EvenMutator" THEN EvenMutator_process(a, m, s)
    ELSE IF a.mode = "TriggeredChords" THEN TriggeredChords_process(a, m, s)
    ELSE Passthrough_process(a, m, s)

----------------------------------------------------------------------------
(* The dispatcher: Arpeggiator::listen_with_midi_receivers with no extra      *)
(* receivers (Arpeggiator::listen), the specific router of main.rs, and a     *)
(* status signal, whose passthrough_midi returns every message. One action is *)
(* one iteration of the loop, from midi_in.read() to the end of process.      *)

MaxPlayers == 2      \* PressHold is sent no new key while it holds this many Players
MaxRecorded == 1     \* PedalRecorder is sent no new key once it has recorded this many
MaxImbalance == 2    \* no key is sent while a pitch has this many note-ons more than note-offs, or fewer

Pitches == {60, 62}

DispatchMessages ==
    {NoteOn(1, n, 100) : n \in Pitches} \cup {NoteOff(1, n, 0) : n \in Pitches}
    \cup {ControlChange(1, DAMPER_PEDAL, v) : v \in {0, 127}}
    \cup {ProgramChange(1, p) : p \in 0..MaxProgram}
    \cup {TimingClock, Reset}

(* the keyboard sends a note-on for a key that is up and a note-off for a key *)
(* that is down; the pedal is used in the modes of PedalModes                 *)
PedalModes == {"Passthrough", "SyncedPedalRecorder"}

Accepts(m) ==
    /\ IsPedal(m) => arpeggiator.mode \in PedalModes
    /\ m.type = "NoteOn" => m.a \notin keys
    /\ m.type = "NoteOff" => m.a \in keys
    /\ m.type \in {"NoteOn", "NoteOff"} =>
          \A k \in DOMAIN sounding :
              sounding[k] < MaxImbalance /\ sounding[k] >= 0
    /\ (m.type = "NoteOn" /\ arpeggiator.mode = "PressHold") =>
          Len(arpeggiator.arpeggios) < MaxPlayers
    /\ (m.type = "NoteOn" /\ arpeggiator.mode = "SyncedPedalRecorder" /\ arpeggiator.pedal) =>
          Len(arpeggiator.notes) < MaxRecorded

(* the readings of the clock the iteration depends on *)
TimeInputs(a, m) ==
    IF \/ a.mode = "PressHold" /\ m.type = "TimingClock" /\ DOMAIN a.held_notes # {}
       \/ a.mode = "SyncedPedalRecorder" /\ m.type = "NoteOn" /\ a.pedal /\ a.notes # <<>>
    THEN BOOLEAN ELSE {FALSE}

(* the end of an iteration: r is what the router gave, stopped what            *)
(* stop_arpeggios gave if the settings changed, p what process gave if the    *)
(* message reached it, by the mode that processed it                          *)
Iterated(m, r, new_settings, replaced, stopped, p, by, beat) ==
    /\ received' = m
    /\ router' = r.r
    /\ routed' = r.m
    /\ bank' = Observe(bank, m)
    /\ existing_settings' = new_settings
    /\ arpeggiator' = p.a
    /\ out' = stopped.out \o p.out
    /\ ret' = p.ret
    /\ keys' = IF m.type = "NoteOn" THEN keys \cup {m.a}
               ELSE IF m.type = "NoteOff" THEN keys \ {m.a} ELSE keys
    /\ sounding' = IF replaced THEN Sound(NoSound, p.out)
                   ELSE IF r.m = Reset THEN NoSound
                   ELSE Sound(sounding, p.out)
    /\ obs' = [ticked |-> p.ticked, held |-> p.held, by |-> by,
               ended |-> replaced \/ r.m = Reset,
               hanging |-> IF replaced THEN Sound(sounding, stopped.out)
                           ELSE IF r.m = Reset THEN Sound(sounding, p.out)
                           ELSE NoSound,
               beat |-> beat]

(* if m.is_none() { continue; } ... arpeggiator.process(m.unwrap(), ...)? *)
Process(m, t, r, new_settings, replaced, stopped, current) ==
    IF stopped.ret = "Ok" /\ r.m # NoMessage
    THEN Iterated(m, r, new_settings, replaced, stopped,
                  process(current, r.m, new_settings, t), current.mode,
                  reset_beats(current, r.m, new_settings, t))
    ELSE Iterated(m, r, new_settings, replaced, stopped,
                  Done(current, <<>>, <<>>, {}, stopped.ret), "none", 0)

Replace_on_mode_change(m, t, r, new_settings) ==
    IF new_settings.mode # existing_settings.mode
    THEN Process(m, t, r, new_settings, TRUE, stop_arpeggios(arpeggiator),
                 create(new_settings.mode))
    ELSE Process(m, t, r, new_settings, FALSE, [out |-> <<>>, ret |-> "Ok"], arpeggiator)

(* if new_settings != existing_settings { stop_arpeggios()?; create } *)
Replace(m, t, r, new_settings) ==
    IF new_settings # existing_settings
    THEN Process(m, t, r, new_settings, TRUE, stop_arpeggios(arpeggiator),
                 create(new_settings.mode))
    ELSE Process(m, t, r, new_settings, FALSE, [out |-> <<>>, ret |-> "Ok"], arpeggiator)

Route(m, t, r) == Replace(m, t, r, Router_get(r.r))

Iteration(m, t) == Route(m, t, passthrough_midi(router, m))

Receive(types) ==
    /\ kind = "dispatcher" /\ ret = "Ok"
    /\ \E m \in DispatchMessages :
          /\ m.type \in types
          /\ Accepts(m)
          /\ \E t \in TimeInputs(arpeggiator, m) : Iteration(m, t)
    /\ UNCHANGED <<pvars, fvars, tvars, qvars>>

DispatchInit ==
    /\ kind = "dispatcher"
    /\ router = SpecificProgramChanges_new(SettingsList, passthrough)
    /\ received = NoMessage /\ routed = NoMessage /\ bank = NoBank
    /\ existing_settings = Router_get(router)
    /\ arpeggiator = create(existing_settings.mode)
    /\ keys = {} /\ obs = NoObs
    /\ player = IdlePlayer /\ fl = IdleFl /\ worker = IdleWorker
    /\ finish_pattern = FALSE /\ alive = FALSE
    /\ out = <<>> /\ sounding = NoSound /\ ret = "Ok" /\ lastOp = "init"
    /\ args = NoArgs /\ result = NoResult
    /\ threads = <<>> /\ history = NoHistory /\ midi_in = NoInput

ReceiveNote ==
    /\ Receive({"NoteOn", "NoteOff"})
    /\ lastOp' = "note"

ReceivePedal ==
    /\ Receive({"ControlChange"})
    /\ lastOp' = "pedal"

ReceiveClock ==
    /\ Receive({"TimingClock"})
    /\ lastOp' = "clock"

ReceiveReset ==
    /\ Receive({"Reset"})
    /\ lastOp' = "reset"

ReceiveProgram ==
    /\ Receive({"ProgramChange"})
    /\ lastOp' = "program"

DispatchNext ==
    \/ ReceiveNote
    \/ ReceivePedal
    \/ ReceiveClock
    \/ ReceiveReset
    \/ ReceiveProgram

SpecDispatch == DispatchInit /\ [][DispatchNext]_vars

----------------------------------------------------------------------------
(* A mode on its own: one mode under settings that do not change, handed any    *)
(* sequence of messages a keyboard with a sustain pedal and a clock can send.   *)
(* One action is one call of the mode's process.                                *)

EvenSteps == 8     \* the fixed_steps EvenMutator is given, besides none

ModeSettings ==
    {Settings(mode, finish, -1, -1, -1, "Up") :
        mode \in {"PressHold", "MutatingHold"}, finish \in BOOLEAN}
    \cup {Settings("EvenMutator", FALSE, -1, fixed_steps, -1, pattern) :
             fixed_steps \in {-1, EvenSteps}, pattern \in {"Up", "Down"}}

ModeMessages ==
    {NoteOn(1, n, 100) : n \in Pitches} \cup {NoteOff(1, n, 0) : n \in Pitches}
    \cup {ControlChange(1, DAMPER_PEDAL, v) : v \in {0, 127}}
    \cup {TimingClock, Reset}

ModeAccepts(m) ==
    /\ m.type = "NoteOn" => m.a \notin keys
    /\ m.type = "NoteOff" => m.a \in keys
    /\ (m.type = "NoteOn" /\ arpeggiator.mode = "PressHold") =>
          Len(arpeggiator.arpeggios) < MaxPlayers
    /\ m.type = "NoteOn" => \A k \in DOMAIN sounding : sounding[k] > -MaxImbalance

(* the end of a call of process: p is what it gave *)
Processed(m, p, beat) ==
    /\ received' = m
    /\ arpeggiator' = p.a
    /\ out' = p.out
    /\ ret' = p.ret
    /\ keys' = IF m.type = "NoteOn" THEN keys \cup {m.a}
               ELSE IF m.type = "NoteOff" THEN keys \ {m.a} ELSE keys
    /\ sounding' = Sound(sounding, p.out)
    /\ obs' = [ticked |-> p.ticked, held |-> p.held, by |-> arpeggiator.mode,
               ended |-> m = Reset, hanging |-> NoSound, beat |-> beat]

ModeReceive(types) ==
    /\ kind = "mode" /\ ret = "Ok"
    /\ \E m \in ModeMessages :
          /\ m.type \in types
          /\ ModeAccepts(m)
          /\ \E t \in TimeInputs(arpeggiator, m) :
                Processed(m, process(arpeggiator, m, existing_settings, t),
                          reset_beats(arpeggiator, m, existing_settings, t))
    /\ UNCHANGED <<pvars, fvars, tvars, qvars, router, routed, bank, existing_settings>>

ModeInit ==
    /\ kind = "mode"
    /\ existing_settings \in ModeSettings
    /\ arpeggiator = create(existing_settings.mode)
    /\ keys = {} /\ obs = NoObs
    /\ router = IdleRouter /\ received = NoMessage /\ routed = NoMessage /\ bank = NoBank
    /\ player = IdlePlayer /\ fl = IdleFl /\ worker = IdleWorker
    /\ finish_pattern = FALSE /\ alive = FALSE
    /\ out = <<>> /\ sounding = NoSound /\ ret = "Ok" /\ lastOp = "init"
    /\ args = NoArgs /\ result = NoResult
    /\ threads = <<>> /\ history = NoHistory /\ midi_in = NoInput

ModeNote ==
    /\ ModeReceive({"NoteOn", "NoteOff"})
    /\ lastOp' = "note"

ModePedal ==
    /\ ModeReceive({"ControlChange"})
    /\ lastOp' = "pedal"

ModeClock ==
    /\ ModeReceive({"TimingClock"})
    /\ lastOp' = "clock"

ModeReset ==
    /\ ModeReceive({"Reset"})
    /\ lastOp' = "reset"

ModeNext ==
    \/ ModeNote
    \/ ModePedal
    \/ ModeClock
    \/ ModeReset

SpecModes == ModeInit /\ [][ModeNext]_vars

----------------------------------------------------------------------------
(* The recorder modes on their own: RepeatRecorder and the timed PedalRecorder, *)
(* whose Players are worker threads, and the synced PedalRecorder beside them.  *)
(* The keyboard, the pedal, the clock and Reset are as for the synced modes;    *)
(* between two messages any worker may take its next step.  Every NoteOn that   *)
(* RepeatRecorder keeps reads Instant::now(), and gets a later Instant than the *)
(* ones before it.                                                              *)

MaxInstant == 3     \* RepeatRecorder is sent no new key after this many readings of the clock
MaxDetached == 1    \* no message that drops a Player is sent while this many dropped workers run

RepeatPitches == {60, 64, 67}

RecorderModes == {"RepeatRecorder", "TimedPedalRecorder", "SyncedPedalRecorder"}

TimedModes == {"RepeatRecorder", "TimedPedalRecorder"}

RecorderSettings ==
    {Settings(mode, finish, -1, -1, -1, "Up") : mode \in RecorderModes, finish \in BOOLEAN}

RecorderMessages ==
    {NoteOn(1, n, 100) : n \in RepeatPitches \cup Pitches}
    \cup {NoteOff(1, n, 0) : n \in RepeatPitches \cup Pitches}
    \cup {ControlChange(1, DAMPER_PEDAL, v) : v \in {0, 127}}
    \cup {TimingClock, Reset}

(* whether RepeatRecorder keeps the NoteOn, and so reads the clock *)
Keeps(a, m) ==
    /\ a.mode = "RepeatRecorder" /\ m.type = "NoteOn"
    /\ ~(a.last_note_off.some /\ a.last_note_off.d.n = m.a)

RecorderAccepts(m) ==
    /\ m.type = "NoteOn" => m.a \notin keys
    /\ m.type = "NoteOff" => m.a \in keys
    /\ m.type = "NoteOn" =>
          \A k \in DOMAIN sounding : sounding[k] > -MaxImbalance /\ sounding[k] < MaxImbalance
    /\ arpeggiator.mode = "RepeatRecorder" =>
          /\ ~IsPedal(m) /\ m # TimingClock
          /\ m.type \in {"NoteOn", "NoteOff"} => m.a \in RepeatPitches
          /\ Keeps(arpeggiator, m) => history.now < MaxInstant
    /\ arpeggiator.mode # "RepeatRecorder" =>
          /\ m.type \in {"NoteOn", "NoteOff"} =>
                /\ m.a \in Pitches
                /\ \A k \in DOMAIN sounding : sounding[k] >= 0
          /\ (m.type = "NoteOn" /\ arpeggiator.pedal) => Len(arpeggiator.notes) < MaxRecorded
    /\ arpeggiator.mode = "TimedPedalRecorder" => m # TimingClock

(* the workers that are still running *)
Running(dropped) == SelectSeq(dropped, LAMBDA t : t.w.pc # "exited")

(* the end of a call of process of a timed mode: p is what it gave *)
TimedProcessed(m, p, beat) ==
    /\ Len(threads) + Len(p.dropped) <= MaxDetached \/ p.dropped = <<>>
    /\ received' = m
    /\ arpeggiator' = p.a
    /\ out' = p.out
    /\ ret' = p.ret
    /\ keys' = IF m.type = "NoteOn" THEN keys \cup {m.a}
               ELSE IF m.type = "NoteOff" THEN keys \ {m.a} ELSE keys
    /\ sounding' = Sound(sounding, p.out)
    /\ obs' = [ticked |-> <<>>, held |-> <<>>, by |-> arpeggiator.mode,
               ended |-> m = Reset, hanging |-> NoSound, beat |-> beat]
    /\ threads' = threads \o p.dropped
    /\ history' = IF Keeps(arpeggiator, m)
                  THEN [now |-> history.now + 1, pressed |-> Append(history.pressed, m.a)]
                  ELSE IF m.type = "NoteOn" \/ m = Reset
                  THEN [history EXCEPT !.pressed = <<>>]
                  ELSE history

RecorderReceive(types) ==
    /\ kind = "recorder" /\ ret = "Ok" /\ arpeggiator.mode \in RecorderModes
    /\ \E m \in RecorderMessages :
          /\ m.type \in types
          /\ RecorderAccepts(m)
          /\ IF arpeggiator.mode \in TimedModes
             THEN TimedProcessed(m, timed_process(arpeggiator, m, existing_settings,
                                                  history.now + 1),
                                 reset_beats(arpeggiator, m, existing_settings, FALSE))
             ELSE /\ \E t \in TimeInputs(arpeggiator, m) :
                        Processed(m, process(arpeggiator, m, existing_settings, t),
                                  reset_beats(arpeggiator, m, existing_settings, t))
                  /\ UNCHANGED tvars
    /\ UNCHANGED <<pvars, fvars, qvars, router, routed, bank, existing_settings>>

RecorderInit ==
    /\ kind = "recorder"
    /\ existing_settings \in RecorderSettings
    /\ arpeggiator = create(existing_settings.mode)
    /\ keys = {} /\ obs = NoObs
    /\ router = IdleRouter /\ received = NoMessage /\ routed = NoMessage /\ bank = NoBank
    /\ player = IdlePlayer /\ fl = IdleFl /\ worker = IdleWorker
    /\ finish_pattern = FALSE /\ alive = FALSE
    /\ out = <<>> /\ sounding = NoSound /\ ret = "Ok" /\ lastOp = "init"
    /\ args = NoArgs /\ result = NoResult
    /\ threads = <<>> /\ history = NoHistory /\ midi_in = NoInput

RecorderNote ==
    /\ RecorderReceive({"NoteOn", "NoteOff"})
    /\ lastOp' = "note"

RecorderPedal ==
    /\ RecorderReceive({"ControlChange"})
    /\ lastOp' = "pedal"

RecorderClock ==
    /\ RecorderReceive({"TimingClock"})
    /\ lastOp' = "clock"

RecorderReset ==
    /\ RecorderReceive({"Reset"})
    /\ lastOp' = "reset"

(* the settings change: the dispatcher calls stop_arpeggios of the mode and *)
(* creates the mode of the new settings, here Passthrough                  *)
RecorderTeardown ==
    /\ kind = "recorder" /\ ret = "Ok" /\ arpeggiator.mode \in RecorderModes
    /\ out' = stop_arpeggios(arpeggiator).out
    /\ ret' = stop_arpeggios(arpeggiator).ret
    /\ sounding' = Sound(sounding, stop_arpeggios(arpeggiator).out)
    /\ existing_settings' = passthrough
    /\ arpeggiator' = create(passthrough.mode)
    /\ obs' = [ticked |-> <<>>, held |-> <<>>, by |-> arpeggiator.mode,
               ended |-> TRUE, hanging |-> NoSound, beat |-> 0]
    /\ lastOp' = "stop_arpeggios"
    /\ UNCHANGED <<pvars, fvars, rvars, tvars, qvars, keys>>

(* what a worker's step leaves behind *)
Played(r) ==
    /\ out' = r.out
    /\ sounding' = Sound(sounding, r.out)
    /\ lastOp' = "worker"
    /\ UNCHANGED <<pvars, fvars, rvars, qvars, existing_settings, keys, obs, ret, history>>

(* the worker of a Player the mode owns takes its next step *)
OwnedPlay ==
    /\ kind = "recorder" /\ arpeggiator.mode \in TimedModes
    /\ \E n \in DOMAIN arpeggiator.arpeggios :
          /\ arpeggiator' = [arpeggiator EXCEPT
                                 !.arpeggios[n] = play_step(arpeggiator.arpeggios[n]).w]
          /\ Played(play_step(arpeggiator.arpeggios[n]))
    /\ UNCHANGED threads

(* the worker of a Player the mode dropped takes its next step *)
DetachedPlay ==
    /\ kind = "recorder"
    /\ \E k \in 1..Len(threads) :
          /\ threads' = Running([threads EXCEPT ![k].w = play_step(threads[k].w).w])
          /\ Played(play_step(threads[k].w))
    /\ UNCHANGED arpeggiator

RecorderNext ==
    \/ RecorderNote
    \/ RecorderPedal
    \/ RecorderClock
    \/ RecorderReset
    \/ RecorderTeardown
    \/ OwnedPlay
    \/ DetachedPlay

SpecRecorders == RecorderInit /\ [][RecorderNext]_vars

----------------------------------------------------------------------------
(* TriggeredChords on its own: one mode instance, fed any sequence of        *)
(* messages and calls of stop_arpeggios.  The keys are any: a NoteOn of a    *)
(* note already held and a NoteOff of one not held are sent as well.         *)

ChordPitches == {60, 62, 64}

ChordSettings ==
    {Settings("TriggeredChords", FALSE, fixed_velocity, -1, -1, "Up") :
        fixed_velocity \in {-1, 64}}

ChordMessages ==
    {NoteOn(1, n, 100) : n \in ChordPitches} \cup {NoteOff(1, n, 0) : n \in ChordPitches}
    \cup {ControlChange(1, DAMPER_PEDAL, 127), TimingClock, Reset}

ChordsReceive(types) ==
    /\ kind = "chords"
    /\ \E m \in ChordMessages :
          /\ m.type \in types
          /\ Processed(m, process(arpeggiator, m, existing_settings, FALSE),
                       reset_beats(arpeggiator, m, existing_settings, FALSE))
    /\ UNCHANGED <<pvars, fvars, tvars, qvars, router, routed, bank, existing_settings>>

ChordsInit ==
    /\ kind = "chords"
    /\ existing_settings \in ChordSettings
    /\ arpeggiator = create(existing_settings.mode)
    /\ keys = {} /\ obs = NoObs
    /\ router = IdleRouter /\ received = NoMessage /\ routed = NoMessage /\ bank = NoBank
    /\ player = IdlePlayer /\ fl = IdleFl /\ worker = IdleWorker
    /\ finish_pattern = FALSE /\ alive = FALSE
    /\ out = <<>> /\ sounding = NoSound /\ ret = "Ok" /\ lastOp = "init"
    /\ args = NoArgs /\ result = NoResult
    /\ threads = <<>> /\ history = NoHistory /\ midi_in = NoInput

ChordsNoteOn ==
    /\ ChordsReceive({"NoteOn"})
    /\ lastOp' = "note_on"

ChordsNoteOff ==
    /\ ChordsReceive({"NoteOff"})
    /\ lastOp' = "note_off"

(* a message neither arm of process matches *)
ChordsOther ==
    /\ ChordsReceive({"ControlChange", "TimingClock", "Reset"})
    /\ lastOp' = "other"

ChordsStopArpeggios ==
    /\ kind = "chords"
    /\ arpeggiator' = TriggeredChords_stop_arpeggios(arpeggiator).a
    /\ out' = stop_arpeggios(arpeggiator).out
    /\ ret' = stop_arpeggios(arpeggiator).ret
    /\ sounding' = Sound(sounding, stop_arpeggios(arpeggiator).out)
    /\ lastOp' = "stop_arpeggios"
    /\ UNCHANGED <<pvars, fvars, rvars, tvars, qvars, existing_settings, keys, obs>>

ChordsNext ==
    \/ ChordsNoteOn
    \/ ChordsNoteOff
    \/ ChordsOther
    \/ ChordsStopArpeggios

SpecChords == ChordsInit /\ [][ChordsNext]_vars

----------------------------------------------------------------------------
(* The pure functions on their own: Pattern::of and Step::transpose, each called  *)
(* once with arguments drawn from bounded sets; transpose is then called a second *)
(* time on what the first call returned.                                          *)

MaxNotes == 3          \* most notes handed to Pattern::of
MaxPatternSteps == 4   \* most steps asked of Pattern::of
MaxStepNotes == 2      \* most notes in a transposed step

PatternPitches == {60, 64, 67}
TransposePitches == {0, 60, 120, 127}
TransposeNotes == {NoteDetails(1, n, 100) : n \in TransposePitches} \cup {NoteDetails(2, 70, 64)}
Offsets == {-128, -60, -12, 0, 12, 60, 127}
I8 == -128..127

NoteLists(pitches, max) ==
    UNION {[1..len -> {NoteDetails(1, n, 100) : n \in pitches}] : len \in 0..max}

PatternArgs ==
    {[NoArgs EXCEPT !.fn = "of", !.pattern = pat, !.notes = notes, !.steps = steps] :
        pat \in {"Up", "Down"},
        notes \in NoteLists(PatternPitches, MaxNotes) \ {<<>>},
        steps \in 1..MaxPatternSteps}

(* generate_steps with fixed_steps unset and fixed_notes_per_step args.a *)
GenerateArgs ==
    {[NoArgs EXCEPT !.fn = "generate_steps", !.pattern = pat, !.notes = notes, !.a = k] :
        pat \in {"Up", "Down"},
        notes \in NoteLists(PatternPitches, MaxNotes) \ {<<>>},
        k \in 0..(MaxNotes + 1)}

(* the offsets are i8, and so is the sum handed to the single call *)
TransposeArgs ==
    {[NoArgs EXCEPT !.fn = "transpose", !.notes = notes, !.a = ab[1], !.b = ab[2]] :
        notes \in UNION {[1..len -> TransposeNotes] : len \in 0..MaxStepNotes},
        ab \in {x \in Offsets \X Offsets : x[1] + x[2] \in I8}}

FunctionsInit ==
    /\ kind = "function"
    /\ args \in PatternArgs \cup TransposeArgs \cup GenerateArgs
    /\ result = NoResult
    /\ player = IdlePlayer /\ fl = IdleFl /\ worker = IdleWorker
    /\ finish_pattern = FALSE /\ alive = FALSE
    /\ out = <<>> /\ sounding = NoSound /\ ret = "none" /\ lastOp = "init"
    /\ router = IdleRouter /\ received = NoMessage /\ routed = NoMessage /\ bank = NoBank
    /\ existing_settings = passthrough /\ arpeggiator = Passthrough_new /\ keys = {} /\ obs = NoObs
    /\ threads = <<>> /\ history = NoHistory /\ midi_in = NoInput

CallPatternOf ==
    /\ kind = "function" /\ args.fn = "of" /\ result.fn = "none"
    /\ result' = [NoResult EXCEPT !.fn = "of",
                                  !.steps = Pattern_of(args.pattern, args.notes, args.steps)]
    /\ lastOp' = "Pattern::of"
    /\ UNCHANGED <<pvars, rvars, dvars, tvars, qvars, out, sounding, ret, args>>

(* the call returns its steps, or it does not return *)
CallGenerateSteps ==
    /\ kind = "function" /\ args.fn = "generate_steps" /\ result.fn = "none"
    /\ result' = IF generate_steps_returns(Settings("PressHold", FALSE, -1, -1, args.a,
                                                    args.pattern), args.notes)
                 THEN [NoResult EXCEPT
                          !.fn = "generate_steps",
                          !.steps = generate_steps(Settings("PressHold", FALSE, -1, -1, args.a,
                                                            args.pattern), args.notes)]
                 ELSE [NoResult EXCEPT !.fn = "generate_steps: no return"]
    /\ lastOp' = "Settings::generate_steps"
    /\ UNCHANGED <<pvars, rvars, dvars, tvars, qvars, out, sounding, ret, args>>

CallTranspose ==
    /\ kind = "function" /\ args.fn = "transpose" /\ result.fn = "none"
    /\ result' = [NoResult EXCEPT !.fn = "transpose",
                                  !.first = Step_transpose(args.notes, args.a),
                                  !.once = Step_transpose(args.notes, args.a + args.b)]
    /\ lastOp' = "Step::transpose"
    /\ UNCHANGED <<pvars, rvars, dvars, tvars, qvars, out, sounding, ret, args>>

CallTransposeAgain ==
    /\ kind = "function" /\ result.fn = "transpose"
    /\ result' = [result EXCEPT !.fn = "transposed twice",
                                !.twice = Step_transpose(result.first, args.b)]
    /\ lastOp' = "Step::transpose"
    /\ UNCHANGED <<pvars, rvars, dvars, tvars, qvars, out, sounding, ret, args>>

FunctionsNext ==
    \/ CallPatternOf
    \/ CallGenerateSteps
    \/ CallTranspose
    \/ CallTransposeAgain

SpecFunctions == FunctionsInit /\ [][FunctionsNext]_vars

----------------------------------------------------------------------------
(* midi.rs: InputDevice.  The reader threads "midi-in" and "midi-clock" parse  *)
(* their device's bytes and send each complete message they keep on the one    *)
(* mpsc channel; the dispatcher calls read in a loop.  A device is what it is  *)
(* yet to send, message by message, and its end of stream.  A reader that      *)
(* meets the end of its stream returns: its Sender is dropped and its thread   *)
(* is_finished, taken here as one step.  An entry of the queue is the message  *)
(* with the reader that sent it and its number among that reader's sends.      *)

MaxStream == 3     \* the devices send this many messages altogether at most

Readers == {"midi-in", "midi-clock"}

DeviceMessages ==
    {NoteOn(1, 60, 100), NoteOn(1, 60, 0), ProgramChange(1, 0), TimingClock}

(* read_into_queue: what the midi-in reader sends for a complete message *)
read_into_queue(m, include_clock_ticks, rewrite_note_zero_as_off) ==
    IF m = TimingClock /\ ~include_clock_ticks THEN <<>>
    ELSE IF m.type = "NoteOn" /\ m.b = 0 /\ rewrite_note_zero_as_off
    THEN <<NoteOff(m.c, m.a, 0)>>
    ELSE <<m>>

(* read_clocks_into_queue and read_clocks_and_prog_change_into_queue *)
ClockDevice_read(m, include_msb_lsb_program_change) ==
    IF m = TimingClock THEN <<m>>
    ELSE IF /\ include_msb_lsb_program_change
            /\ \/ m.type = "ProgramChange"
               \/ m.type = "ControlChange" /\ m.a \in {BANK_SELECT, BANK_SELECT_LSB}
    THEN <<m>>
    ELSE <<>>

(* tx.send of the messages msgs by reader r *)
Entries(d, r, msgs) ==
    [k \in 1..Len(msgs) |-> [from |-> r, k |-> Len(d.sent) + k, m |-> msgs[k]]]

Sent(d, r, msgs) ==
    [d EXCEPT !.left = d.left - 1,
              !.sent = d.sent \o Entries(d, r, msgs),
              !.queue = d.queue \o Entries(d, r, msgs)]

recv_newest(queue) ==
    [entry |-> queue[Len(queue)], queue |-> SubSeq(queue, 1, Len(queue) - 1)]

(* self.receiver.recv() on a queue that is not empty *)
recv(queue) == [entry |-> Head(queue), queue |-> Tail(queue)]

Received(d, r) ==
    [d EXCEPT !.queue = r.queue, !.delivered = Append(d.delivered, r.entry), !.pc = "check"]

(* InputDevice::read from where its caller is: at the loop over the threads, *)
(* or in recv, which returns once the queue has a message or every Sender    *)
(* is dropped                                                                *)
InputDevice_read(d) ==
    IF d.pc = "check"
    THEN IF d.finished # {}
         THEN [d EXCEPT !.pc = "ended", !.err = "Input thread has finished"]
         ELSE [d EXCEPT !.pc = "recv"]
    ELSE IF d.queue # <<>> THEN Received(d, recv(d.queue))
    ELSE [d EXCEPT !.pc = "ended", !.err = "RecvError"]

(* open_with_external_clock: the clock thread exists when the clock device *)
(* is not the input device                                                 *)
QueueInit ==
    /\ kind = "queue"
    /\ \E include_clock_ticks, prog_change \in BOOLEAN :
          midi_in = [NoInput EXCEPT
                        !.threads = IF include_clock_ticks THEN {"midi-in"} ELSE Readers,
                        !.include_clock_ticks = include_clock_ticks,
                        !.prog_change = prog_change,
                        !.left = MaxStream]
    /\ player = IdlePlayer /\ fl = IdleFl /\ worker = IdleWorker
    /\ finish_pattern = FALSE /\ alive = FALSE
    /\ out = <<>> /\ sounding = NoSound /\ ret = "none" /\ lastOp = "init"
    /\ router = IdleRouter /\ received = NoMessage /\ routed = NoMessage /\ bank = NoBank
    /\ existing_settings = passthrough /\ arpeggiator = Passthrough_new /\ keys = {} /\ obs = NoObs
    /\ args = NoArgs /\ result = NoResult
    /\ threads = <<>> /\ history = NoHistory

QueueStep(op) ==
    /\ lastOp' = op
    /\ UNCHANGED <<pvars, rvars, dvars, fvars, tvars, out, sounding, ret>>

Reading(r) == kind = "queue" /\ r \in midi_in.threads \ midi_in.finished /\ midi_in.pc # "ended"

(* a reader has read the last byte of a message of its device *)
ReaderRead ==
    /\ \E r \in Readers, m \in DeviceMessages :
          /\ Reading(r) /\ midi_in.left > 0
          /\ midi_in' = Sent(midi_in, r,
                              IF r = "midi-in"
                              THEN read_into_queue(m, midi_in.include_clock_ticks, TRUE)
                              ELSE ClockDevice_read(m, midi_in.prog_change))
    /\ QueueStep("read_into_queue")

(* a reader's read_exact fails: its device has disconnected *)
ReaderEof ==
    /\ \E r \in Readers :
          /\ Reading(r)
          /\ midi_in' = [midi_in EXCEPT !.finished = @ \cup {r}]
    /\ QueueStep("disconnected")

(* the dispatcher's midi_in.read()? *)
Read ==
    /\ kind = "queue" /\ midi_in.pc # "ended"
    /\ midi_in.pc = "recv" =>
          midi_in.queue # <<>> \/ midi_in.threads \subseteq midi_in.finished
    /\ midi_in' = InputDevice_read(midi_in)
    /\ QueueStep("read")

QueueNext ==
    \/ ReaderRead
    \/ ReaderEof
    \/ Read

SpecQueue == QueueInit /\ [][QueueNext]_vars

(* the dispatcher runs whenever read can go on; the devices owe nothing *)
SpecQueueFair == SpecQueue /\ WF_vars(Read)

----------------------------------------------------------------------------
(* Properties of the Players *)

OffsBeforeOns(msgs) ==
    \A i, j \in 1..Len(msgs) :
        (msgs[i].type = "NoteOn" /\ msgs[j].type = "NoteOff") => j < i

HasType(msgs, type) == \E i \in 1..Len(msgs) : msgs[i].type = type

(* C2: across any interleaving of play_tick, change_arpeggio, stop and          *)
(* force_stop on a synced Player, whatever an operation sends off is exactly    *)
(* the step that was sounding (the notes it was sent on with, also after the    *)
(* arpeggio was replaced), what sounds afterwards is exactly the step the       *)
(* Player remembers as last sounded, and nothing sounds once play_tick has      *)
(* returned false.                                                              *)
C2_StepSentOffOnce ==
    [][kind = "synced" =>
        /\ SelectSeq(out', LAMBDA m : m.type = "NoteOff")
               \in {<<>>, send_off(LastNotes(player))}
        /\ ~alive' => sounding' = NoSound
        /\ alive' => sounding' = SoundOfNotes(LastNotes(player'))]_vars

(* a Player whose arpeggio was replaced while a step sounded has returned false *)
(* from play_tick after sending off the detached copy of that step              *)
C2_Witness ==
    /\ kind = "synced" /\ ~alive /\ lastOp = "play_tick" /\ ret = "false"
    /\ player.last_step.tag = "Some" /\ player.last_step.notes # <<>>
    /\ out = send_off(player.last_step.notes)

(* C7: on one Player's output the note-offs of a step come before the note-ons  *)
(* of the next: within one play_tick no note-on precedes a note-off and at most *)
(* the last-sounded step sounds; the timed worker has nothing sounding whenever *)
(* it is about to send a step on, and exactly one step while it sleeps.         *)
C7_OffBeforeNextOn ==
    /\ kind = "synced" =>
          /\ OffsBeforeOns(out)
          /\ sounding \in {NoSound, SoundOfNotes(LastNotes(player))}
    /\ kind = "timed" =>
          sounding = IF worker.pc = "sleep"
                     THEN SoundOfNotes(worker.steps[worker.cur + 1])
                     ELSE NoSound

(* a play_tick that sent the previous step off and the next step on *)
C7_Witness ==
    /\ kind = "synced" /\ lastOp = "play_tick" /\ Len(out) >= 2
    /\ out[1].type = "NoteOff" /\ out[Len(out)].type = "NoteOn"

(* C8: on a synced Player that is not to finish its pattern, the play_tick    *)
(* after stop() sends the last-sounded step's note-offs, sends no note-on and *)
(* returns false, whatever step and wait_ticks are.                           *)
C8_StopEndsAtNextTick ==
    [][(/\ kind = "synced" /\ alive /\ lastOp' = "play_tick"
        /\ player.should_stop /\ ~player.arpeggio.finish_steps)
       => (ret' = "false" /\ out' = send_off(LastNotes(player)))]_vars

(* such a play_tick, taken in the middle of a step and of the cycle *)
C8_Witness ==
    /\ kind = "synced" /\ lastOp = "play_tick" /\ ret = "false"
    /\ player.should_stop /\ ~player.arpeggio.finish_steps
    /\ player.wait_ticks > 0 /\ player.step > 0
    /\ out # <<>>

(* C9: on a synced Player that is to finish its pattern, after stop() each    *)
(* play_tick with wait_ticks > 0 sends nothing and returns true; one with     *)
(* wait_ticks = 0 and step > 0 sends the last step off and steps[step] on,    *)
(* advances step by one and returns true; the first one with wait_ticks = 0   *)
(* and step = 0 sends the last step off, sends nothing on and returns false.  *)
C9_FinishPattern ==
    [][(/\ kind = "synced" /\ alive /\ lastOp' = "play_tick"
        /\ player.should_stop /\ player.arpeggio.finish_steps)
       => IF player.wait_ticks = 0 /\ player.step = 0
          THEN ret' = "false" /\ out' = send_off(LastNotes(player))
          ELSE /\ ret' = "true"
               /\ player.wait_ticks > 0 => (out' = <<>> /\ player'.step = player.step)
               /\ player.wait_ticks = 0 =>
                     /\ out' = send_off(LastNotes(player))
                               \o send_on(player.arpeggio.steps[player.step + 1].notes)
                     /\ player'.step = NextStep(player.arpeggio, player.step)]_vars

(* a stopped, finishing Player has played through its last step and ended *)
C9_Witness ==
    /\ kind = "synced" /\ lastOp = "play_tick" /\ ret = "false"
    /\ player.should_stop /\ player.arpeggio.finish_steps
    /\ Len(player.arpeggio.steps) >= 2
    /\ player.last_step = SomeIndex(Len(player.arpeggio.steps) - 1)
    /\ out # <<>>

(* C10: force_stop on a synced or a full-length Player always sends the final *)
(* note-off and returns Ok, never "Failed to force stop arpeggio".            *)
C10_ForceStopSucceeds ==
    lastOp = "force_stop" =>
        /\ ret = "Ok" /\ ~alive
        /\ kind = "synced" => out = send_off(LastNotes(player))
        /\ kind = "full" => out = last_note_off(fl)

(* force_stop on a finishing Player that was in the middle of its cycle *)
C10_Witness ==
    /\ kind = "synced" /\ lastOp = "force_stop" /\ ret = "Ok"
    /\ player.arpeggio.finish_steps
    /\ Len(player.arpeggio.steps) >= 3 /\ player.last_step = SomeIndex(0)
    /\ out # <<>>

----------------------------------------------------------------------------
(* Properties of the settings routers *)

(* C11: change_arpeggio preserves phase.  The ticks until the next step-on are  *)
(* the Player's wait_ticks.  Stated for any swap (C11_AnySwapKeepsWait) it is   *)
(* refuted: the position is recomputed in the new arpeggio's timing, so a step  *)
(* length that differs from the old one gives another wait.  It holds when the  *)
(* steps of the old and the new arpeggio all last the same number of ticks, as  *)
(* they do for the one caller, MutatingHold, whose steps last a beat each.      *)
SameStepTicks(old, new) ==
    \A i \in 1..Len(old.steps), j \in 1..Len(new.steps) :
        old.steps[i].ticks = new.steps[j].ticks

C11_PhasePreserved ==
    [][(lastOp' = "change_arpeggio" /\ SameStepTicks(player.arpeggio, player'.arpeggio))
          => player'.wait_ticks = player.wait_ticks]_vars

C11_AnySwapKeepsWait ==
    [][lastOp' = "change_arpeggio" => player'.wait_ticks = player.wait_ticks]_vars

C11_Witness ==
    /\ kind = "synced" /\ lastOp = "change_arpeggio"
    /\ player.last_step.tag = "Some"
    /\ player.step > 0 /\ player.wait_ticks > 0
    /\ player.arpeggio.steps[1].ticks = TICKS_PER_BEAT


----------------------------------------------------------------------------
(* Properties of a mode on its own *)

(* the pitches the message m makes the mode a release *)
ReleasedBy(a, m) ==
    IF m.type = "NoteOff" /\ ~a.pedal THEN {m.a}
    ELSE IF IsPedal(m) /\ m.b < 64 /\ a.pedal THEN a.pedal_notes_off
    ELSE {}

InPressHold == kind = "mode" /\ arpeggiator.mode = "PressHold"
InMutatingHold == kind = "mode" /\ arpeggiator.mode = "MutatingHold"

(* C12: in PressHold a Player is marked to stop exactly when the last pitch of  *)
(* its trigger set is released.  After every call, a Player is marked to stop   *)
(* if and only if its trigger set is empty; a trigger set loses exactly the     *)
(* pitches released by a note-off with the pedal up or by the pedal's falling   *)
(* edge; and a Player whose trigger set is not empty is ticked by every         *)
(* TimingClock and kept (play_tick returned true), and is dropped by Reset only.*)
C12_StopAtLastRelease ==
    [][InPressHold =>
          /\ \A j \in 1..Len(arpeggiator'.arpeggios) :
                arpeggiator'.arpeggios[j].player.should_stop
                    <=> arpeggiator'.arpeggios[j].note_set = {}
          /\ \A k \in 1..Len(arpeggiator.arpeggios) :
                (arpeggiator.arpeggios[k].note_set # {} /\ received' # Reset) =>
                    /\ \E j \in 1..Len(arpeggiator'.arpeggios) :
                          /\ arpeggiator'.arpeggios[j].id = arpeggiator.arpeggios[k].id
                          /\ arpeggiator'.arpeggios[j].note_set =
                                arpeggiator.arpeggios[k].note_set
                                    \ ReleasedBy(arpeggiator, received')
                    /\ received' = TimingClock =>
                          \E i \in 1..Len(obs'.ticked) :
                              obs'.ticked[i] = arpeggiator.arpeggios[k].id]_vars

C12_Witness ==
    /\ InPressHold /\ lastOp = "pedal" /\ ~arpeggiator.pedal
    /\ Len(arpeggiator.arpeggios) = 2
    /\ arpeggiator.arpeggios[1].player.should_stop
    /\ ~arpeggiator.arpeggios[2].player.should_stop
    /\ arpeggiator.arpeggios[2].note_set \subseteq keys

(* C13: the sustain pedal in PressHold and MutatingHold.  A note-off with the   *)
(* pedal down only adds its pitch to pedal_notes_off; the falling edge releases *)
(* exactly the pitches of pedal_notes_off and empties it; a note-on for a pitch *)
(* of pedal_notes_off only takes it out of that set.                            *)
HeldWithout(a, ns) ==
    IF a.mode = "PressHold"
    THEN [n \in DOMAIN a.held_notes \ ns |-> a.held_notes[n]]
    ELSE SelectSeq(a.held_notes, LAMBDA d : d.n \notin ns)

TriggerSets(a) ==
    IF a.mode = "PressHold" THEN [k \in 1..Len(a.arpeggios) |-> a.arpeggios[k].note_set]
    ELSE <<>>

C13_PedalDefersRelease ==
    [][(InPressHold \/ InMutatingHold) =>
          /\ (received'.type = "NoteOff" /\ arpeggiator.pedal) =>
                arpeggiator' = [arpeggiator EXCEPT !.pedal_notes_off = @ \cup {received'.a}]
          /\ (IsPedal(received') /\ received'.b < 64 /\ arpeggiator.pedal) =>
                /\ arpeggiator'.pedal_notes_off = {} /\ ~arpeggiator'.pedal
                /\ arpeggiator'.held_notes = HeldWithout(arpeggiator, arpeggiator.pedal_notes_off)
                /\ TriggerSets(arpeggiator') =
                      [k \in 1..Len(TriggerSets(arpeggiator)) |->
                          TriggerSets(arpeggiator)[k] \ arpeggiator.pedal_notes_off]
          /\ (received'.type = "NoteOn" /\ received'.a \in arpeggiator.pedal_notes_off) =>
                arpeggiator' = [arpeggiator EXCEPT !.pedal_notes_off = @ \ {received'.a}]]_vars

(* a key pressed again under the pedal after its note-off was deferred, while *)
(* another release is still deferred                                          *)
C13_Witness ==
    /\ InPressHold /\ lastOp = "note" /\ received.type = "NoteOn"
    /\ arpeggiator.pedal /\ arpeggiator.pedal_notes_off # {}
    /\ received.a \notin DOMAIN arpeggiator.held_notes
    /\ \E k \in 1..Len(arpeggiator.arpeggios) : received.a \in arpeggiator.arpeggios[k].note_set

(* C14: MutatingHold.  The claim that a released pitch is never dropped from    *)
(* the playing arpeggio while a note is held (C14_ReleasedNeverDropped) is      *)
(* refuted: the tick after a later note-on rebuilds the arpeggio from the notes *)
(* then held.  What holds: nothing but a tick changes the Player; a tick with   *)
(* changed set, a note held and the Player not stopping leaves a Player whose   *)
(* arpeggio is the held notes, one step each in press order; a tick with        *)
(* changed clear keeps the arpeggio; a release sets changed only when it leaves *)
(* no note held.                                                                *)
StepNotes(arpeggio) == [k \in 1..Len(arpeggio.steps) |-> arpeggio.steps[k].notes[1]]

ArpeggioPitches(arpeggio) ==
    {arpeggio.steps[k].notes[i].n : k \in 1..Len(arpeggio.steps), i \in 1..1}

C14_MutateOnAddOrEmpty ==
    [][InMutatingHold =>
          /\ received'.type \notin {"TimingClock", "Reset"} =>
                arpeggiator'.arpeggio = arpeggiator.arpeggio
          /\ (/\ received' = TimingClock /\ arpeggiator.changed
              /\ arpeggiator.held_notes # <<>>
              /\ (arpeggiator.arpeggio.some => ~arpeggiator.arpeggio.p.should_stop)) =>
                /\ arpeggiator'.arpeggio.some /\ ~arpeggiator'.changed
                /\ StepNotes(arpeggiator'.arpeggio.p.arpeggio) = arpeggiator.held_notes
          /\ (received' = TimingClock /\ ~arpeggiator.changed /\ arpeggiator'.arpeggio.some) =>
                arpeggiator'.arpeggio.p.arpeggio = arpeggiator.arpeggio.p.arpeggio
          /\ ReleasedBy(arpeggiator, received') # {} =>
                (arpeggiator'.changed
                    <=> (arpeggiator.changed \/ arpeggiator'.held_notes = <<>>))]_vars

C14_ReleasedNeverDropped ==
    [][(/\ InMutatingHold
        /\ arpeggiator.arpeggio.some /\ arpeggiator'.arpeggio.some
        /\ arpeggiator'.held_notes # <<>>) =>
          ArpeggioPitches(arpeggiator.arpeggio.p.arpeggio)
              \subseteq ArpeggioPitches(arpeggiator'.arpeggio.p.arpeggio)]_vars

(* a pitch was released while another stayed held, and the arpeggio still *)
(* plays both                                                             *)
C14_Witness ==
    /\ InMutatingHold /\ lastOp = "clock"
    /\ arpeggiator.arpeggio.some /\ ~arpeggiator.changed
    /\ Len(arpeggiator.held_notes) = 1
    /\ Len(arpeggiator.arpeggio.p.arpeggio.steps) = 2
    /\ ~arpeggiator.pedal /\ arpeggiator.pedal_notes_off = {}

InEvenMutator == kind = "mode" /\ arpeggiator.mode = "EvenMutator"

Bitmap(a) == a.player.arpeggio.notes

(* the bitmap after the note-on or note-off m *)
BitmapAfter(notes, m) ==
    IF m.type = "NoteOn" THEN [x \in DOMAIN notes \cup {m.a} |-> IF x = m.a THEN m.b ELSE notes[x]]
    ELSE IF m.type = "NoteOff" THEN [x \in DOMAIN notes \ {m.a} |-> notes[x]]
    ELSE notes

(* the pitch a Player sounds first: the lowest held for Up, the highest for Down *)
FirstPitch(notes, pattern) ==
    CHOOSE n \in DOMAIN notes :
        \A x \in DOMAIN notes : IF pattern = "Up" THEN n <= x ELSE n >= x

(* C15: the start of EvenMutator.  The first note-on in the idle state begins a  *)
(* pre-roll; the next two TimingClocks and every note in between send nothing   *)
(* and signal no beat reset, the notes changing the bitmap; the third           *)
(* TimingClock signals beat reset once and starts the Player on the bitmap as   *)
(* it then is.  That this Player sounds its first step (C15_ThirdClockSounds)   *)
(* holds only if a pitch is still held: if every pitch was released during the  *)
(* pre-roll the Player ends at once and the mode is idle again.  Either way the *)
(* third TimingClock first sends the note-off of pitch NOTE_MAX - 1.            *)
C15_StartAfterPreRoll ==
    [][InEvenMutator =>
          /\ (arpeggiator.state = "None" /\ received'.type = "NoteOn") =>
                /\ arpeggiator'.state = "Starting" /\ arpeggiator'.wait = 2
                /\ DOMAIN Bitmap(arpeggiator') = {received'.a}
                /\ out' = <<>> /\ obs'.beat = 0
          /\ (arpeggiator.state = "Starting" /\ received' # TimingClock) =>
                /\ arpeggiator'.state = "Starting" /\ arpeggiator'.wait = arpeggiator.wait
                /\ Bitmap(arpeggiator') = BitmapAfter(Bitmap(arpeggiator), received')
                /\ out' = <<>> /\ obs'.beat = 0
          /\ (arpeggiator.state = "Starting" /\ arpeggiator.wait > 0 /\ received' = TimingClock) =>
                /\ arpeggiator'.state = "Starting" /\ arpeggiator'.wait = arpeggiator.wait - 1
                /\ Bitmap(arpeggiator') = Bitmap(arpeggiator)
                /\ out' = <<>> /\ obs'.beat = 0
          /\ (arpeggiator.state = "Starting" /\ arpeggiator.wait = 0 /\ received' = TimingClock) =>
                /\ obs'.beat = 1
                /\ IF DOMAIN Bitmap(arpeggiator) # {}
                   THEN /\ arpeggiator'.state = "Playing"
                        /\ Bitmap(arpeggiator') = Bitmap(arpeggiator)
                        /\ out' = <<NoteOff(FL_CHANNEL, NOTE_MAX - 1, 0),
                                    NoteOn(FL_CHANNEL,
                                           FirstPitch(Bitmap(arpeggiator),
                                                      existing_settings.pattern),
                                           100)>>
                   ELSE /\ arpeggiator'.state = "None"
                        /\ out' = <<NoteOff(FL_CHANNEL, NOTE_MAX - 1, 0)>>
          /\ arpeggiator.state # "Starting" => obs'.beat = 0]_vars

C15_ThirdClockSounds ==
    [][(/\ InEvenMutator /\ arpeggiator.state = "Starting" /\ arpeggiator.wait = 0
        /\ received' = TimingClock) =>
          /\ arpeggiator'.state = "Playing"
          /\ \E i \in 1..Len(out') : out'[i].type = "NoteOn"]_vars

(* the Player has just started on a bitmap that the pre-roll changed *)
C15_Witness ==
    /\ InEvenMutator /\ lastOp = "clock" /\ obs.beat = 1
    /\ arpeggiator.state = "Playing"
    /\ Cardinality(DOMAIN Bitmap(arpeggiator)) = 2
    /\ Cardinality(keys) = 2

----------------------------------------------------------------------------
(* Properties of the pure functions *)

RECURSIVE NoteCount(_)
NoteCount(steps) ==
    IF steps = <<>> THEN 0 ELSE Len(steps[1]) + NoteCount(SubSeq(steps, 2, Len(steps)))

Max(x, y) == IF x >= y THEN x ELSE y

(* C18: for every pattern, every list of n >= 1 notes and every s >= 1,         *)
(* Pattern::of returns exactly s steps that hold at least max(n, s) notes in    *)
(* all.  (That the call returns at all is TLC evaluating it.)                   *)
C18_PatternLength ==
    result.fn = "of" =>
        /\ Len(result.steps) = args.steps
        /\ NoteCount(result.steps) >= Max(Len(args.notes), args.steps)

C18_Witness ==
    /\ result.fn = "of"
    /\ Len(args.notes) = 1 /\ args.steps = MaxPatternSteps
    /\ NoteCount(result.steps) = MaxPatternSteps

(* C19: Pattern::Up with two held notes and s = 3.  The claim's three one-note  *)
(* steps lower, upper, lower (C19_OneNotePerStep) are not what is returned: the *)
(* two notes are expanded to lower, upper, upper, lower, and the fourth note is *)
(* not discarded but given to the first step, so the steps are                  *)
(* [lower, upper], [upper], [lower].                                            *)
TwoNotesThreeSteps ==
    /\ result.fn = "of" /\ args.pattern = "Up"
    /\ Len(args.notes) = 2 /\ args.steps = 3
    /\ args.notes[1].n # args.notes[2].n

Lower == IF args.notes[1].n < args.notes[2].n THEN args.notes[1] ELSE args.notes[2]
Upper == IF args.notes[1].n < args.notes[2].n THEN args.notes[2] ELSE args.notes[1]

C19_UpTwoNotesThreeSteps ==
    TwoNotesThreeSteps => result.steps = <<<<Lower, Upper>>, <<Upper>>, <<Lower>>>>

C19_OneNotePerStep ==
    TwoNotesThreeSteps => result.steps = <<<<Lower>>, <<Upper>>, <<Lower>>>>

C19_Witness ==
    /\ TwoNotesThreeSteps
    /\ args.notes[1].n > args.notes[2].n

(* C20: transposition composes.  Stated for all a and b (C20_Composes) it is    *)
(* refuted: a note that transpose(a) takes outside 0..127 is left out and       *)
(* transpose(b) cannot bring it back, while transpose(a + b) may keep it.  What *)
(* holds: transpose(a) then transpose(b) yields, in order, the notes of         *)
(* transpose(a + b) whose pitch at offset a alone is within 0..127; so the two  *)
(* agree when no note leaves the range at the intermediate offset.              *)
C20_ComposesWithinRange ==
    result.fn = "transposed twice" =>
        result.twice = SelectSeq(result.once, LAMBDA d : d.n - args.b \in 0..127)

C20_Composes ==
    result.fn = "transposed twice" => result.twice = result.once

C20_Witness ==
    /\ result.fn = "transposed twice"
    /\ Len(args.notes) = 2
    /\ Len(result.once) = 2 /\ Len(result.twice) = 1

IsSettingsMessage(m) ==
    /\ m.c = 1
    /\ \/ m.type = "ProgramChange"
       \/ m.type = "ControlChange" /\ m.a \in {0, 32}

(* C4: in every state of either router, passthrough_midi returns None for a   *)
(* channel-1 CC 0, CC 32 and Program Change, and returns every other message  *)
(* unchanged (CC 0, CC 32 and Program Change on another channel included).    *)
C4_SettingsConsumed ==
    lastOp = "passthrough_midi" =>
        routed = IF IsSettingsMessage(received) THEN NoMessage ELSE received

(* a Program Change on channel 2 has come out of the wraparound router unchanged *)
C4_Witness ==
    /\ router.strategy = "wraparound" /\ router.index # 0
    /\ received = ProgramChange(2, 1) /\ routed = received

(* C5: the specific router's active Settings are the table entry keyed by the *)
(* MSB and LSB stored at the most recent channel-1 Program Change and its     *)
(* program number + 1, or the passthrough default when the table has no such  *)
(* key or no Program Change has arrived; CC 0 and CC 32 alone change nothing. *)
C5_SpecificLookup ==
    router.strategy = "specific" =>
        Router_get(router) =
            IF bank.selected /\ bank.key \in DOMAIN Predefined(SettingsList)
            THEN Predefined(SettingsList)[bank.key]
            ELSE passthrough

(* selected under bank (0, 1), and the bank select has moved on since *)
C5_Witness ==
    /\ router.strategy = "specific" /\ bank.selected
    /\ bank.key = <<0, 1, 2>> /\ router.current = PressHoldSettings
    /\ router.msb = 1 /\ router.lsb = 0

----------------------------------------------------------------------------
(* Properties of the dispatcher and its modes *)

(* the Players a mode holds, in the order it stops them *)
PlayersOf(a) ==
    IF a.mode = "PressHold" THEN [k \in 1..Len(a.arpeggios) |-> a.arpeggios[k].player]
    ELSE IF a.mode = "MutatingHold" THEN (IF a.arpeggio.some THEN <<a.arpeggio.p>> ELSE <<>>)
    ELSE IF a.mode = "SyncedPedalRecorder" THEN Values(a.arpeggios)
    ELSE <<>>

(* the note-offs of the steps the Players have sounding *)
RECURSIVE LastStepsOff(_)
LastStepsOff(players) ==
    IF players = <<>> THEN <<>>
    ELSE send_off(LastNotes(Head(players))) \o LastStepsOff(Tail(players))

(* C1: whenever an iteration of the dispatcher has processed a Reset or has   *)
(* replaced the mode, every (channel, pitch) has been sent as many note-ons   *)
(* as note-offs since the last such iteration: no note is left hanging.       *)
C1_NoHangingNotes ==
    (kind = "dispatcher" /\ obs.ended) => obs.hanging = NoSound

(* C3: an iteration whose message selects Settings with a different mode      *)
(* sends exactly the note-offs of the steps the old mode's Players have       *)
(* sounding, leaves a freshly created mode of the new Settings, and hands the *)
(* message to no mode; and every message that is processed is processed by    *)
(* the mode of the Settings in force.                                         *)
C3_TeardownBeforeCreate ==
    /\ [](kind = "dispatcher" =>
             /\ arpeggiator.mode = Router_get(router).mode
             /\ existing_settings = Router_get(router)
             /\ obs.by \in {"none", arpeggiator.mode}
             /\ ret = "Ok")
    /\ [][(kind = "dispatcher" /\ Router_get(router').mode # existing_settings.mode)
          => /\ out' = LastStepsOff(PlayersOf(arpeggiator))
             /\ arpeggiator' = create(Router_get(router').mode)
             /\ PlayersOf(arpeggiator') = <<>>
             /\ routed' = NoMessage
             /\ obs'.by = "none"]_vars

(* a Program Change has replaced a mode whose Players had notes sounding *)
C3_Witness ==
    /\ kind = "dispatcher" /\ received.type = "ProgramChange" /\ obs.ended
    /\ Len(out) >= 2 /\ \A k \in 1..Len(out) : out[k].type = "NoteOff"
    /\ arpeggiator.mode = "MutatingHold" /\ ~arpeggiator.arpeggio.some

NoDuplicates(seq) == \A i, j \in 1..Len(seq) : seq[i] = seq[j] => i = j

(* C6: in PressHold, MutatingHold and the synced PedalRecorder, a Timing      *)
(* Clock calls play_tick once on every Player the mode holds at that tick,    *)
(* and on no Player twice.                                                    *)
C6_EachPlayerTickedOnce ==
    (kind = "dispatcher" /\ received = TimingClock
        /\ obs.by \in {"PressHold", "MutatingHold", "SyncedPedalRecorder"})
    => /\ NoDuplicates(obs.ticked)
       /\ {obs.ticked[k] : k \in 1..Len(obs.ticked)} = obs.held

(* PressHold held two Players at a tick: the first finished and was removed,  *)
(* and the second was ticked all the same                                     *)
C6_Witness ==
    /\ kind = "dispatcher" /\ received = TimingClock /\ obs.by = "PressHold"
    /\ Len(obs.ticked) = 2
    /\ Len(arpeggiator.arpeggios) = 1
    /\ arpeggiator.arpeggios[1].id = obs.ticked[2]

(* C35: an iteration tears the mode down and makes it anew exactly when the  *)
(* Settings the router has selected after the message differ, in any field, *)
(* from the Settings in force.  When they differ the old mode's Players are *)
(* sent off, the mode is fresh and the Settings are the new ones; when they *)
(* do not, nothing is stopped, and a Program Change, which no mode is       *)
(* handed, leaves the mode and its Players as they are and sends nothing.   *)
C35_ReplacedWhenSettingsDiffer ==
    [][kind = "dispatcher" =>
          IF Router_get(router') # existing_settings
          THEN /\ obs'.ended
               /\ existing_settings' = Router_get(router')
               /\ out' = LastStepsOff(PlayersOf(arpeggiator))
               /\ arpeggiator' = create(Router_get(router').mode)
          ELSE /\ obs'.ended <=> routed' = Reset
               /\ existing_settings' = existing_settings
               /\ received'.type = "ProgramChange" =>
                     arpeggiator' = arpeggiator /\ out' = <<>>]_vars

(* the Program Change to PressHold with a fixed velocity has stopped the *)
(* Player of a mode and left a fresh PressHold                           *)
C35_Witness ==
    /\ kind = "dispatcher" /\ received.type = "ProgramChange" /\ obs.ended
    /\ existing_settings = FixedVelocitySettings
    /\ arpeggiator = PressHold_new
    /\ out # <<>> /\ keys # {}

----------------------------------------------------------------------------
(* Properties of the recorder modes *)

InRepeatRecorder == kind = "recorder" /\ arpeggiator.mode = "RepeatRecorder"

(* the NoteOn of the step re-presses the pitch of last_note_off *)
Repressed ==
    /\ InRepeatRecorder /\ lastOp' = "note" /\ received'.type = "NoteOn"
    /\ arpeggiator.last_note_off.some /\ arpeggiator.last_note_off.d.n = received'.a

(* the Instant at which the note of pitch n of the mode was pressed *)
PressedAt(a, n) ==
    IF n \in DOMAIN a.held_notes THEN a.held_notes[n].i ELSE a.last_note_off.i

StartedSteps == arpeggiator'.arpeggios[received'.a].steps

StepPitches(steps) == [k \in 1..Len(steps) |-> steps[k][1].n]

(* C16, as the code has it: the arpeggio started by re-pressing the pitch   *)
(* released last has one step of one note for each note still held at the  *)
(* re-press and one for the re-pressed note, ordered by the Instants of     *)
(* their presses; the notes released earlier are not part of it.            *)
C16_HeldAndLastInPressOrder ==
    [][Repressed =>
          /\ received'.a \in DOMAIN arpeggiator'.arpeggios
          /\ \A k \in 1..Len(StartedSteps) : Len(StartedSteps[k]) = 1
          /\ Len(StartedSteps) = Cardinality(DOMAIN arpeggiator.held_notes) + 1
          /\ {StartedSteps[k][1].n : k \in 1..Len(StartedSteps)}
                = DOMAIN arpeggiator.held_notes \cup {received'.a}
          /\ \A j, k \in 1..Len(StartedSteps) :
                j < k => PressedAt(arpeggiator, StartedSteps[j][1].n)
                           < PressedAt(arpeggiator, StartedSteps[k][1].n)
          /\ arpeggiator'.held_notes = EmptyMap]_vars

(* C16 as stated: the arpeggio has one step for each note pressed since the *)
(* last start, released or not, in the order pressed                        *)
C16_EveryPressedNote ==
    [][(Repressed /\ history.pressed # <<>>) =>
          StepPitches(StartedSteps) = history.pressed]_vars

(* three keys pressed one after another, the last released and pressed again *)
C16_Witness ==
    /\ InRepeatRecorder /\ lastOp = "note" /\ received = NoteOn(1, 67, 100)
    /\ 67 \in DOMAIN arpeggiator.arpeggios
    /\ StepPitches(arpeggiator.arpeggios[67].steps) = <<60, 64, 67>>
    /\ arpeggiator.arpeggios[67].pc = "check" /\ arpeggiator.arpeggios[67].i = 0

InPedalRecorder ==
    kind = "recorder" /\ arpeggiator.mode \in {"TimedPedalRecorder", "SyncedPedalRecorder"}

(* the step is a NoteOff processed with the pedal up *)
PedalUpNoteOff ==
    /\ InPedalRecorder /\ lastOp' = "note" /\ received'.type = "NoteOff"
    /\ ~arpeggiator.pedal

(* the Player keyed n is stopped: the synced one stays in the map with its  *)
(* flag set, the timed one leaves the map with its flag set                 *)
StoppedByNoteOff(n) ==
    IF arpeggiator.mode = "SyncedPedalRecorder"
    THEN arpeggiator'.arpeggios[n] = stop(arpeggiator.arpeggios[n])
    ELSE /\ n \notin DOMAIN arpeggiator'.arpeggios
         /\ threads' = Append(threads, [key |-> n,
                                        w |-> [arpeggiator.arpeggios[n]
                                                  EXCEPT !.should_stop = TRUE]])

(* a Player of the map after the step is the Player the map had for the key *)
SamePlayer(k) ==
    \/ arpeggiator'.arpeggios[k] = arpeggiator.arpeggios[k]
    \/ /\ arpeggiator.mode = "SyncedPedalRecorder"
       /\ arpeggiator'.arpeggios[k] = stop(arpeggiator.arpeggios[k])

----------------------------------------------------------------------------
(* Properties of Step::transpose *)

Transposed == kind = "function" /\ result.fn \in {"transpose", "transposed twice"}

(* the indices of the notes whose pitch stays in 0..127 when moved by d *)
InRange(notes, d) == {k \in 1..Len(notes) : notes[k].n + d \in 0..127}

(* to is from without the notes of the indices outside keep, each kept note *)
(* moved by d and otherwise as it was, in the order of from                 *)
KeptAndMoved(from, to, keep, d) ==
    /\ Len(to) = Cardinality(keep)
    /\ \E at \in [1..Len(to) -> keep] :
          /\ \A i, j \in 1..Len(to) : i < j => at[i] < at[j]
          /\ \A j \in 1..Len(to) :
                /\ to[j].n = from[at[j]].n + d
                /\ to[j].c = from[at[j]].c
                /\ to[j].v = from[at[j]].v

(* C21: Step::transpose(d) returns the notes of the step whose pitch + d is *)
(* in 0..127, each with pitch + d and the channel and velocity it had, in   *)
(* the order of the step; a note that leaves the range is left out and is   *)
(* never clamped to 0 or 127.                                               *)
C21_TransposeDropsOutOfRange ==
    Transposed =>
        /\ KeptAndMoved(args.notes, result.first, InRange(args.notes, args.a), args.a)
        /\ KeptAndMoved(args.notes, result.once, InRange(args.notes, args.a + args.b),
                        args.a + args.b)
        /\ (args.notes = <<NoteDetails(2, 70, 64)>> /\ args.a = 60) => result.first = <<>>
        /\ (args.notes = <<NoteDetails(1, 60, 100)>> /\ args.a = 60) =>
              result.first = <<NoteDetails(1, 120, 100)>>

(* pitch 70 and pitch 60 in one step moved by +60: only 120 is left *)
C21_Witness ==
    /\ Transposed
    /\ args.notes = <<NoteDetails(2, 70, 64), NoteDetails(1, 60, 100)>> /\ args.a = 60
    /\ result.first = <<NoteDetails(1, 120, 100)>>

----------------------------------------------------------------------------
(* Properties of the input queue *)

InQueueSpec == kind = "queue"

From(entries, r) == SelectSeq(entries, LAMBDA e : e.from = r)

(* C22, as the code has it: what read has returned, followed by what is still *)
(* on the queue, is what the readers have sent, in the order they sent it; so *)
(* no message is returned twice, none is returned out of the order of its     *)
(* arrival, and the messages of one reader are returned in the order it sent  *)
(* them.  The messages still on the queue when read finds a reader thread     *)
(* finished are not returned.                                                 *)
C22_ReturnedInArrivalOrder ==
    InQueueSpec =>
        /\ midi_in.delivered \o midi_in.queue = midi_in.sent
        /\ \A r \in Readers :
              From(midi_in.delivered, r) \o From(midi_in.queue, r) = From(midi_in.sent, r)
        /\ \A i, j \in 1..Len(midi_in.delivered) :
              i < j => midi_in.delivered[i].k < midi_in.delivered[j].k

(* C22 as stated: every message put on the queue is returned by read, also *)
(* when the loop of the dispatcher has ended                               *)
C22_EveryMessageReturned ==
    (InQueueSpec /\ midi_in.pc = "ended") => midi_in.delivered = midi_in.sent

(* both readers have sent, read has returned a message of each, and another *)
(* is waiting on the queue                                                  *)
C22_Witness ==
    /\ InQueueSpec /\ lastOp = "read"
    /\ \A r \in Readers : From(midi_in.delivered, r) # <<>>
    /\ midi_in.queue # <<>>

(* C25: once a reader thread has met the end of its stream the loop of the *)
(* dispatcher ends with the error of read                                  *)
C25_DisconnectEndsLoop ==
    (InQueueSpec /\ midi_in.finished # {}) ~> (midi_in.pc = "ended")

----------------------------------------------------------------------------
(* Properties of the teardown of the timed modes *)

(* stop_arpeggios of a timed mode has returned and the replacement is made *)
TimedTornDown ==
    kind = "recorder" /\ arpeggiator.mode = "Passthrough" /\ obs.by \in TimedModes

(* C23: when stop_arpeggios of a timed mode has returned, every worker the *)
(* mode started has exited, those of the Players it stopped earlier by a   *)
(* NoteOff or a pedal-down too, so that no worker of the old mode sends a  *)
(* message once the replacement mode is made                               *)
C23_NoWorkerAfterTeardown ==
    TimedTornDown => threads = <<>> /\ lastOp # "worker"

----------------------------------------------------------------------------
(* Properties of the worker of a timed Player *)

InTimed == kind = "timed"

(* C24: after stop() the worker of a timed Player exits in the end.  At a    *)
(* loop check with the stop flag set it exits if finish_steps is off or the  *)
(* step index is 0, and plays the step of the index otherwise; it exits from *)
(* a loop check only, never between the note-on and the note-off of a step.  *)
C24_WorkerExitsAfterStop ==
    /\ (InTimed /\ worker.should_stop) ~> (worker.pc = "exited")
    /\ [][(InTimed /\ lastOp' = "play_check" /\ worker.should_stop) =>
             IF ~worker.finish_steps \/ worker.i = 0
             THEN worker'.pc = "exited" /\ out' = <<>>
             ELSE /\ worker'.pc = "sleep"
                  /\ out' = send_on(worker.steps[worker.i + 1])]_vars
    /\ [][(InTimed /\ worker'.pc = "exited" /\ worker.pc # "exited") =>
             /\ worker.pc = "check"
             /\ \A k \in DOMAIN sounding : sounding[k] = 0]_vars

(* a worker with finish_steps and several steps has played to the end of *)
(* its pattern after stop() and exited                                   *)
C24_Witness ==
    /\ InTimed /\ worker.pc = "exited" /\ lastOp = "play_check"
    /\ worker.finish_steps /\ Len(worker.steps) > 1 /\ worker.cur = Len(worker.steps) - 1

----------------------------------------------------------------------------
(* Properties of the position change_arpeggio leaves *)

UniformTicks(arpeggio) ==
    \A j \in 1..Len(arpeggio.steps) : arpeggio.steps[j].ticks = arpeggio.steps[1].ticks

(* C26: after change_arpeggio to an arpeggio whose steps all last the same   *)
(* number of ticks, step * ticks_per_step - wait_ticks of the Player equals  *)
(* the ticks since the beat start, computed from step and wait_ticks under   *)
(* the old arpeggio, modulo the total ticks of the new arpeggio              *)
C26_PositionEquation ==
    [][(lastOp' = "change_arpeggio" /\ UniformTicks(player'.arpeggio)
            /\ ~ChangeUnderflows(player)) =>
          (player'.step * player'.arpeggio.steps[1].ticks - player'.wait_ticks)
                % player'.arpeggio.total_ticks
              = (TicksSinceStart(player) - player.wait_ticks)
                    % player'.arpeggio.total_ticks]_vars

(* what the code leaves: the step the elapsed ticks fall in, one before the  *)
(* step the equation asks for                                                *)
C26_StepInProgress ==
    [][(lastOp' = "change_arpeggio" /\ UniformTicks(player'.arpeggio)
            /\ ~ChangeUnderflows(player)) =>
          ((player'.step + 1) * player'.arpeggio.steps[1].ticks - player'.wait_ticks)
                % player'.arpeggio.total_ticks
              = (TicksSinceStart(player) - player.wait_ticks)
                    % player'.arpeggio.total_ticks]_vars

----------------------------------------------------------------------------
(* Properties of MutatingHold around the release of its notes *)

Stopping(a) == a.arpeggio.some /\ a.arpeggio.p.should_stop

(* the Player of the mode ends at this tick *)
CycleOver(p) == p.wait_ticks = 0 /\ p.step = 0

(* C27: in MutatingHold a release that leaves a note held changes neither    *)
(* the changed flag nor the Player, and a tick with the flag clear keeps the *)
(* arpeggio and the stop flag of the Player: the arpeggio goes on over the   *)
(* notes it had.  The stop flag is set by nothing but the tick that finds    *)
(* the flag set and no note held; from that tick on the Player ends at once  *)
(* without finish-pattern and at the tick where its cycle is over with it.   *)
C27_StopAfterLastRelease ==
    [][InMutatingHold =>
          /\ (ReleasedBy(arpeggiator, received') # {} /\ arpeggiator'.held_notes # <<>>) =>
                /\ arpeggiator'.changed = arpeggiator.changed
                /\ arpeggiator'.arpeggio = arpeggiator.arpeggio
          /\ (/\ received' = TimingClock /\ ~arpeggiator.changed
              /\ arpeggiator.arpeggio.some /\ arpeggiator'.arpeggio.some) =>
                /\ arpeggiator'.arpeggio.p.arpeggio = arpeggiator.arpeggio.p.arpeggio
                /\ arpeggiator'.arpeggio.p.should_stop = arpeggiator.arpeggio.p.should_stop
          /\ (Stopping(arpeggiator') /\ ~Stopping(arpeggiator)) =>
                /\ received' = TimingClock /\ arpeggiator.changed
                /\ arpeggiator.held_notes = <<>> /\ arpeggiator.arpeggio.some
          /\ (/\ received' = TimingClock /\ arpeggiator.arpeggio.some
              /\ \/ Stopping(arpeggiator)
                 \/ arpeggiator.changed /\ arpeggiator.held_notes = <<>>) =>
                /\ arpeggiator'.arpeggio.some
                      <=> (/\ arpeggiator.arpeggio.p.arpeggio.finish_steps
                           /\ ~CycleOver(arpeggiator.arpeggio.p))
                /\ arpeggiator'.arpeggio.some =>
                      /\ Stopping(arpeggiator')
                      /\ arpeggiator'.arpeggio.p.arpeggio
                            = arpeggiator.arpeggio.p.arpeggio]_vars

(* both notes of a two-step arpeggio are released and the Player, told to *)
(* stop by the tick after the last release, plays on to the end of its    *)
(* cycle                                                                   *)
C27_Witness ==
    /\ InMutatingHold /\ lastOp = "clock"
    /\ Stopping(arpeggiator) /\ arpeggiator.held_notes = <<>>
    /\ Len(arpeggiator.arpeggio.p.arpeggio.steps) = 2
    /\ arpeggiator.arpeggio.p.step = 1

(* C28: while the Player of MutatingHold is stopping, a note-on leaves the   *)
(* Player as it is and is kept as a pending change; a tick keeps the pending *)
(* change and the held notes and calls no change_arpeggio: the Player, if it *)
(* is still there, has the arpeggio it had and is stopping.  A tick that     *)
(* finds a pending change and no Player clears it and, when a note is held,  *)
(* starts a Player on the notes then held, one step each in press order,     *)
(* sounds its first step and signals one beat reset; when no note is held it *)
(* starts nothing and signals no beat reset.                                 *)
C28_NoChangeWhileStopping ==
    [][InMutatingHold =>
          /\ (Stopping(arpeggiator) /\ received'.type = "NoteOn") =>
                /\ arpeggiator'.arpeggio = arpeggiator.arpeggio
                /\ received'.a \notin arpeggiator.pedal_notes_off =>
                      /\ arpeggiator'.changed
                      /\ Len(arpeggiator'.held_notes) = Len(arpeggiator.held_notes) + 1
          /\ (Stopping(arpeggiator) /\ received' = TimingClock) =>
                /\ arpeggiator'.changed = arpeggiator.changed
                /\ arpeggiator'.held_notes = arpeggiator.held_notes
                /\ obs'.beat = 0
                /\ arpeggiator'.arpeggio.some =>
                      /\ Stopping(arpeggiator')
                      /\ arpeggiator'.arpeggio.p.arpeggio = arpeggiator.arpeggio.p.arpeggio
          /\ (/\ received' = TimingClock /\ arpeggiator.changed
              /\ ~arpeggiator.arpeggio.some) =>
                /\ ~arpeggiator'.changed
                /\ IF arpeggiator.held_notes = <<>>
                   THEN arpeggiator'.arpeggio = NoPlayer /\ obs'.beat = 0 /\ out' = <<>>
                   ELSE /\ arpeggiator'.arpeggio.some /\ ~Stopping(arpeggiator')
                        /\ StepNotes(arpeggiator'.arpeggio.p.arpeggio)
                              = arpeggiator.held_notes
                        /\ arpeggiator'.arpeggio.p.step
                              = NextStep(arpeggiator'.arpeggio.p.arpeggio, 0)
                        /\ out' = send_on(<<arpeggiator.held_notes[1]>>)
                        /\ obs'.beat = 1]_vars

(* a note pressed while the Player plays its cycle to the end waits, as a *)
(* pending change, through a tick                                         *)
C28_Witness ==
    /\ InMutatingHold /\ lastOp = "clock"
    /\ Stopping(arpeggiator) /\ arpeggiator.changed
    /\ arpeggiator.held_notes # <<>>
    /\ arpeggiator.held_notes[1].n \notin ArpeggioPitches(arpeggiator.arpeggio.p.arpeggio)

----------------------------------------------------------------------------
(* Properties of RepeatRecorder after a re-press *)

(* C29: the re-press that starts a Player clears last_note_off, so that the *)
(* NoteOff and the next NoteOn of that pitch start no other Player: the     *)
(* NoteOn is put into held_notes as any first press is                      *)
C29_RepressClearsLastReleased ==
    [][Repressed => ~arpeggiator'.last_note_off.some]_vars

----------------------------------------------------------------------------
(* Properties of the notes a PedalRecorder echoes *)

(* the step processes the falling edge of the pedal *)
FallingEdge ==
    /\ InPedalRecorder /\ lastOp' = "pedal"
    /\ arpeggiator.pedal /\ received'.b < 64

(* the NoteOff messages among msgs *)
NoteOffs(msgs) == SelectSeq(msgs, LAMBDA x : x.type = "NoteOff")

(* C30: once a PedalRecorder has processed the falling edge of the pedal, the *)
(* map of thru notes is empty and no pitch it echoed is left sounding: the    *)
(* mode has no Player that has played and no worker is left, so every note-on *)
(* sent so far has its note-off                                               *)
C30_NoEchoLeftSounding ==
    [][FallingEdge =>
          /\ arpeggiator'.thru_notes = EmptyMap
          /\ threads' = <<>> => \A k \in DOMAIN sounding' : sounding'[k] <= 0]_vars

(* what the falling edge does: it sends one NoteOff for each entry of the map *)
(* of thru notes, of the pitch of the entry, and leaves the map empty         *)
C30_FallingEdgeReleasesThruNotes ==
    [][FallingEdge =>
          /\ arpeggiator'.thru_notes = EmptyMap
          /\ ~arpeggiator'.pedal
          /\ Len(NoteOffs(out')) = Cardinality(DOMAIN arpeggiator.thru_notes)
          /\ {NoteOffs(out')[j].a : j \in 1..Len(NoteOffs(out'))}
                = DOMAIN arpeggiator.thru_notes]_vars

----------------------------------------------------------------------------
(* Properties of the full-length Player *)

InFull == kind = "full"

(* C31: the full-length Player takes every pitch 0..127: note_on of any of *)
(* them does not fail and leaves the pitch in the notes of the arpeggio    *)
C31_EveryPitchAccepted ==
    (InFull /\ lastOp = "note_on") =>
        /\ ret # "panic"
        /\ received.a \in DOMAIN fl.arpeggio.notes

(* the pitches strictly after last in the order of the pattern, up to the end *)
(* of the array                                                               *)
Ahead(pattern, last, held) ==
    {n \in held : IF pattern = "Up" THEN n > last ELSE n < last}

(* the first of S in the order of the pattern *)
First(pattern, S) ==
    CHOOSE n \in S : \A x \in S : IF pattern = "Up" THEN n <= x ELSE n >= x

(* the held pitch nearest after last in the order of the pattern, cyclically *)
NearestAfter(pattern, last, held) ==
    IF Ahead(pattern, last, held) # {} THEN First(pattern, Ahead(pattern, last, held))
    ELSE First(pattern, held)

(* C32: note_on and note_off of a playing full-length Player change the notes *)
(* of its arpeggio and nothing else of it, and send nothing: wait_ticks,      *)
(* last_note and the stop flag are as before; a play_tick with wait_ticks     *)
(* above 0 only counts it down, and one with wait_ticks 0 and a note held     *)
(* sends the note-off of last_note and the note-on of the held pitch nearest  *)
(* after last_note in the order of the pattern, which is last_note from then  *)
(* on, and sets wait_ticks to ticks_per_step - 1.                             *)
C32_NotesDoNotDisturbPhase ==
    [][InFull =>
          /\ (lastOp' \in {"note_on", "note_off"} /\ ret' # "panic") =>
                /\ fl' = [fl EXCEPT !.arpeggio.notes = fl'.arpeggio.notes]
                /\ out' = <<>> /\ alive' = alive
                /\ DOMAIN fl'.arpeggio.notes
                      = IF lastOp' = "note_on"
                        THEN DOMAIN fl.arpeggio.notes \cup {received'.a}
                        ELSE DOMAIN fl.arpeggio.notes \ {received'.a}
                /\ \A n \in DOMAIN fl'.arpeggio.notes \ {received'.a} :
                      fl'.arpeggio.notes[n] = fl.arpeggio.notes[n]
          /\ (lastOp' = "play_tick" /\ ~fl.should_stop /\ fl.wait_ticks > 0) =>
                /\ fl' = [fl EXCEPT !.wait_ticks = fl.wait_ticks - 1]
                /\ out' = <<>>
          /\ (/\ lastOp' = "play_tick" /\ ~fl.should_stop /\ fl.wait_ticks = 0
              /\ DOMAIN fl.arpeggio.notes # {}) =>
                /\ fl'.last_note = NearestAfter(fl.arpeggio.pattern, fl.last_note,
                                                DOMAIN fl.arpeggio.notes)
                /\ fl'.wait_ticks = fl.arpeggio.ticks_per_step - 1
                /\ fl'.arpeggio = fl.arpeggio
                /\ out' = <<NoteOff(FL_CHANNEL, fl.last_note, 0),
                            NoteOn(FL_CHANNEL, fl'.last_note,
                                   fl.arpeggio.notes[fl'.last_note])>>]_vars

(* a pitch added during play is sounded in its turn: the Player has gone from *)
(* 0 to 60 with 126 held as well                                              *)
C32_Witness ==
    /\ InFull /\ lastOp = "play_tick" /\ ret = "true"
    /\ DOMAIN fl.arpeggio.notes = {0, 60, 126}
    /\ fl.arpeggio.pattern = "Up" /\ fl.last_note = 60
    /\ out = <<NoteOff(FL_CHANNEL, 0, 0), NoteOn(FL_CHANNEL, 60, 100)>>

----------------------------------------------------------------------------
(* Properties of EvenMutator at a step boundary *)

(* the Player play_tick is called on: the one of Playing, or the one made *)
(* from the Arpeggio of Starting when the countdown is over                *)
TickedPlayer(a) == IF a.state = "Playing" THEN a.player ELSE Fl_init(a.player.arpeggio)

(* the TimingClock of the step calls play_tick at a step boundary *)
AtStepBoundary ==
    /\ InEvenMutator /\ received' = TimingClock
    /\ \/ arpeggiator.state = "Playing"
       \/ arpeggiator.state = "Starting" /\ arpeggiator.wait = 0
    /\ ~TickedPlayer(arpeggiator).should_stop
    /\ TickedPlayer(arpeggiator).wait_ticks = 0

(* C33: at a step boundary of the full-length Player with no pitch held,   *)
(* play_tick sends the note-off of last_note and nothing else and returns  *)
(* false, and EvenMutator is in the state None; with a pitch held, be it   *)
(* last_note alone, it sends the note-off of last_note and the note-on of  *)
(* a held pitch, and EvenMutator is Playing                                *)
C33_EndsWhenNothingHeld ==
    [][AtStepBoundary =>
          IF DOMAIN TickedPlayer(arpeggiator).arpeggio.notes = {}
          THEN /\ out' = <<NoteOff(FL_CHANNEL, TickedPlayer(arpeggiator).last_note, 0)>>
               /\ arpeggiator'.state = "None"
          ELSE /\ arpeggiator'.state = "Playing"
               /\ Len(out') = 2
               /\ out'[1] = NoteOff(FL_CHANNEL, TickedPlayer(arpeggiator).last_note, 0)
               /\ out'[2].type = "NoteOn"
               /\ out'[2].a \in DOMAIN TickedPlayer(arpeggiator).arpeggio.notes
               /\ arpeggiator'.player.last_note = out'[2].a]_vars

(* every key was released while the Player played 60, and the step boundary *)
(* after that ended it                                                      *)
C33_Witness ==
    /\ InEvenMutator /\ lastOp = "clock" /\ arpeggiator.state = "None"
    /\ out = <<NoteOff(FL_CHANNEL, 60, 0)>>

----------------------------------------------------------------------------
(* Properties of the note-offs of the full-length Player *)

(* C37: the full-length Player sends no note-off of a pitch it has not sent *)
(* the note-on of before: of no pitch have more note-offs than note-ons     *)
(* been sent, at the first step-on, at a stop and at a first sweep that     *)
(* finds no pitch held                                                      *)
C37_NoNoteOffBeforeNoteOn ==
    InFull => \A k \in DOMAIN sounding : sounding[k] >= 0

----------------------------------------------------------------------------
(* Properties of TriggeredChords *)

InChords == kind = "chords"

(* the presets of the table *)
Presets == {PresetTable[k] : k \in 1..Len(PresetTable)}

(* how many times the note n is a step of the preset *)
StepCount(preset, n) == Cardinality({k \in 1..Len(preset.steps) : preset.steps[k] = n})

RECURSIVE StepCountOf(_, _)
StepCountOf(presets, n) ==
    IF presets = <<>> THEN 0
    ELSE StepCount(Head(presets), n) + StepCountOf(Tail(presets), n)

(* the note-ons less the note-offs sent of the note n *)
SoundingOf(n) ==
    IF <<SEND_CHANNEL, n>> \in DOMAIN sounding THEN sounding[<<SEND_CHANNEL, n>>] ELSE 0

ChordNotes == UNION {{p.steps[k] : k \in 1..Len(p.steps)} : p \in Presets}

(* C34: in TriggeredChords not_playing and playing are disjoint and make up  *)
(* the preset table, after any note-ons, note-offs and calls of              *)
(* stop_arpeggios; and the steps of the presets in playing, and of no other, *)
(* have been sent on once more than off: each note has been sent on, more    *)
(* than off, as many times as it is a step of a preset in playing            *)
C34_PlayingSetsPartition ==
    InChords =>
        /\ arpeggiator.not_playing \cap arpeggiator.playing = {}
        /\ arpeggiator.not_playing \cup arpeggiator.playing = Presets
        /\ \A n \in ChordNotes :
              SoundingOf(n) = StepCountOf(Drained(arpeggiator.playing), n)
        /\ \A k \in DOMAIN sounding : k[1] = SEND_CHANNEL /\ k[2] \in ChordNotes

(* two presets that share the step 64 play together *)
C34_Witness ==
    /\ InChords /\ lastOp = "note_on"
    /\ Cardinality(arpeggiator.playing) >= 2
    /\ SoundingOf(64) = 2

TriggerSet(preset) == {preset.trigger[k] : k \in 1..Len(preset.trigger)}

NoRepeat(trigger) == \A j, k \in 1..Len(trigger) : trigger[j] = trigger[k] => j = k

(* the trigger has an entry for each held note and each entry is held *)
Triggered(preset, notes) ==
    /\ Len(preset.trigger) = Cardinality(notes)
    /\ TriggerSet(preset) \subseteq notes
    /\ NoRepeat(preset.trigger) => TriggerSet(preset) = notes

(* C36 as stated: after every message a preset is in playing only if its *)
(* trigger set is the set of the held notes                              *)
C36_PlayingOnlyIfTriggered ==
    (InChords /\ lastOp \in {"note_on", "note_off", "other"}) =>
        \A p \in arpeggiator.playing : TriggerSet(p) = arpeggiator.notes

(* C36, as the code has it: after a NoteOff every preset in playing is      *)
(* triggered by the held notes: its trigger has as many entries as notes    *)
(* are held and each is held, so a trigger without a repeated entry is the  *)
(* set of the held notes.  After a NoteOn no preset in not_playing is       *)
(* triggered.  A NoteOn stops no preset and sends no NoteOff: a preset that *)
(* plays stays in playing when another note is pressed.                     *)
C36_TriggeredAfterNoteOff ==
    [][InChords =>
          /\ lastOp' = "note_off" =>
                /\ arpeggiator'.notes = arpeggiator.notes \ {received'.a}
                /\ \A p \in arpeggiator'.playing : Triggered(p, arpeggiator'.notes)
                /\ arpeggiator'.playing \subseteq arpeggiator.playing
          /\ lastOp' = "note_on" =>
                /\ arpeggiator'.notes = arpeggiator.notes \cup {received'.a}
                /\ \A p \in arpeggiator'.not_playing : ~Triggered(p, arpeggiator'.notes)
                /\ arpeggiator.playing \subseteq arpeggiator'.playing
                /\ NoteOffs(out') = <<>>
          /\ lastOp' = "other" => arpeggiator' = arpeggiator /\ out' = <<>>]_vars

(* the preset triggered by 60 plays on with 60 and 62 held *)
C36_Witness ==
    /\ InChords /\ lastOp = "note_on"
    /\ arpeggiator.notes = {60, 62}
    /\ PresetTable[1] \in arpeggiator.playing

----------------------------------------------------------------------------
(* Properties of the arithmetic of change_arpeggio in MutatingHold *)

(* the tick calls change_arpeggio on the Player of the mode *)
Mutates(a) ==
    /\ a.changed /\ a.arpeggio.some /\ ~a.arpeggio.p.should_stop
    /\ a.held_notes # <<>>

(* the Player as change_arpeggio leaves it, before play_tick *)
Mutated(a, s) == MutatingHold_mutate(a, s).p

(* C38: in MutatingHold, whose steps last TICKS_PER_BEAT ticks each, no     *)
(* Player the mode holds has a wait_ticks above the ticks since its cycle   *)
(* began, so the subtraction of change_arpeggio does not go below zero; the *)
(* wait_ticks change_arpeggio leaves is from 0 to the ticks of the step it  *)
(* selects, and the decrement of the play_tick that follows it in the same  *)
(* tick does not go below zero either, also when ticks that call            *)
(* change_arpeggio follow one another                                       *)
C38_NoUnderflow ==
    /\ [](InMutatingHold /\ arpeggiator.arpeggio.some =>
             /\ ~ChangeUnderflows(arpeggiator.arpeggio.p)
             /\ arpeggiator.arpeggio.p.wait_ticks >= 0
             /\ UniformTicks(arpeggiator.arpeggio.p.arpeggio)
             /\ arpeggiator.arpeggio.p.arpeggio.steps[1].ticks >= 1)
    /\ [][(InMutatingHold /\ received' = TimingClock /\ Mutates(arpeggiator)) =>
             /\ Mutated(arpeggiator, existing_settings).wait_ticks >= 0
             /\ Mutated(arpeggiator, existing_settings).wait_ticks
                   <= Mutated(arpeggiator, existing_settings).arpeggio.steps[
                          Mutated(arpeggiator, existing_settings).step + 1].ticks
             /\ arpeggiator'.arpeggio.some
             /\ arpeggiator'.arpeggio.p
                   = play_tick(Mutated(arpeggiator, existing_settings)).p
             /\ arpeggiator'.arpeggio.p.wait_ticks >= 0]_vars

(* change_arpeggio was called at this tick on a Player in the second step of *)
(* its cycle: it holds the step it sounded last by value and waits on        *)
C38_Witness ==
    /\ InMutatingHold /\ lastOp = "clock" /\ arpeggiator.arpeggio.some
    /\ arpeggiator.arpeggio.p.last_step.tag = "Some"
    /\ Len(arpeggiator.arpeggio.p.arpeggio.steps) = 2
    /\ arpeggiator.arpeggio.p.step = 1
    /\ ~arpeggiator.changed /\ ~arpeggiator.arpeggio.p.should_stop

----------------------------------------------------------------------------
(* Properties of Settings::generate_steps *)

Generated == kind = "function" /\ args.fn = "generate_steps" /\ result.fn # "none"

(* n / k rounded up *)
Ceil(n, k) == (n + k - 1) \div k

(* C39: generate_steps with fixed_steps unset and fixed_notes_per_step k, *)
(* for any k from 0 on and one note or more, returns, and returns n / k   *)
(* rounded up steps, none of them empty and none of more than k notes     *)
C39_StepsOfAtMostKNotes ==
    Generated =>
        /\ result.fn = "generate_steps"
        /\ args.a > 0 =>
              /\ Len(result.steps) = Ceil(Len(args.notes), args.a)
              /\ \A j \in 1..Len(result.steps) :
                    result.steps[j] # <<>> /\ Len(result.steps[j]) <= args.a

(* the same for k from 1 on, where the loop ends *)
C39_StepsForPositiveK ==
    (Generated /\ args.a > 0) =>
        /\ result.fn = "generate_steps"
        /\ Len(result.steps) = Ceil(Len(args.notes), args.a)
        /\ \A j \in 1..Len(result.steps) :
              result.steps[j] # <<>> /\ Len(result.steps[j]) <= args.a

----------------------------------------------------------------------------
(* Properties of the wraparound router *)

(* the wraparound router has just taken a channel-1 Program Change *)
WraparoundSelected ==
    /\ kind = "none" /\ router.strategy = "wraparound"
    /\ lastOp = "passthrough_midi"
    /\ received.type = "ProgramChange" /\ received.c = RECEIVE_CHANNEL

SevenBitTriples == BankValues \X BankValues \X ProgramValues

FlatOf(t) == Wraparound_flat(t[1], t[2], t[3])

(* C40: the value the wraparound router flattens (MSB, LSB, PC) into is    *)
(* different for different 7-bit triples, and a triple selects the entry   *)
(* another one selects only when the two values are congruent modulo the   *)
(* table length                                                            *)
C40_FlattenedInjective ==
    WraparoundSelected =>
        \A t \in SevenBitTriples :
            /\ t # <<router.msb, router.lsb, router.pc>>
                  => FlatOf(t) # Wraparound_flat(router.msb, router.lsb, router.pc)
            /\ FlatOf(t) % Len(router.list) = router.index
                  => FlatOf(t) % Len(router.list)
                        = Wraparound_flat(router.msb, router.lsb, router.pc) % Len(router.list)

(* the flattened values of triples whose LSB and PC are below U7_MAX differ *)
C40_InjectiveBelowMax ==
    WraparoundSelected =>
        \A t \in SevenBitTriples :
            (/\ t # <<router.msb, router.lsb, router.pc>>
             /\ t[2] < U7_MAX /\ t[3] < U7_MAX
             /\ router.lsb < U7_MAX /\ router.pc < U7_MAX)
                => FlatOf(t) # Wraparound_flat(router.msb, router.lsb, router.pc)

(* the entry selected is the flattened value modulo the table length *)
C40_IndexIsFlatModLen ==
    WraparoundSelected =>
        router.index = Wraparound_flat(router.msb, router.lsb, router.pc) % Len(router.list)

============================================================================
